---- MODULE Spec2Model ----
(***************************************************************************)
(* Image upload microservice: the locked file writer                       *)
(* (file_utils::write_image_data), the thumbnail generator                 *)
(* (thumbnail::make) and the batch handlers of http_handlers.rs.           *)
(*                                                                         *)
(* A file is a sequence of chunks (one chunk = one buffer of io::copy).    *)
(* Advisory whole-file locks (fs2 / flock) belong to an open file handle   *)
(* and are released by unlock or when the handle is dropped.               *)
(***************************************************************************)
EXTENDS Integers, Sequences, FiniteSets, TLC

VARIABLES
    files,      \* path under the upload root -> content; DOMAIN files = existing files
    dirs,       \* the directories that exist under the upload root
    faulty,     \* TRUE when the system calls of the run may fail
    locks,      \* advisory locks held: records [path, holder, mode]
    wr,         \* one write_image_data call frame per calling thread
    tasks,      \* the thumbnail::make calls (threads), in spawn order
    hd,         \* the request handlers (one per request thread)
    clock,      \* Utc::now(), in microseconds
    call        \* a direct call of one function: its arguments and what it returned

vars == <<files, dirs, faulty, locks, wr, tasks, hd, clock, call>>

(***************************************************************************)
(* Bounds                                                                  *)
(***************************************************************************)
MaxLen == 2         \* longest payload, in chunks, of the direct writer calls
MaxBatch == 2       \* most items in one request
MaxClock == 1       \* last microsecond the clock reaches

\* the two chunk values of file_utils.rs test_write_image_data
ChunkA == 165
ChunkB == 90
Bytes == {ChunkA, ChunkB}

Payloads == UNION {[1..n -> Bytes] : n \in 0..MaxLen}

\* the short payload of the second writer
PayloadB == <<ChunkB>>

\* the one path the direct calls contend for
TestPath == <<"t", ".", "p", "n", "g">>

(***************************************************************************)
(* Results of io::Result<u64>                                              *)
(***************************************************************************)
Ok(n) == [ok |-> TRUE, n |-> n, err |-> ""]
Err(e) == [ok |-> FALSE, n |-> 0, err |-> e]
Pending == [ok |-> FALSE, n |-> 0, err |-> "pending"]

(***************************************************************************)
(* The file system                                                         *)
(***************************************************************************)
Exists(p) == p \in DOMAIN files

Zeros(n) == [i \in 1..n |-> 0]

\* a write that ignores the file offset and always writes at the start
WriteAt_no_offset(content, pos, b) ==
    IF content = <<>> THEN <<b>> ELSE [content EXCEPT ![1] = b]

\* write(2) of one chunk at file offset pos (a hole is filled with zeros)
WriteAt(content, pos, b) ==
    IF pos < Len(content)
    THEN [content EXCEPT ![pos + 1] = b]
    ELSE content \o Zeros(pos - Len(content)) \o <<b>>

\* index of the last occurrence of character c in s, 0 when there is none
LastIndexOf(s, c) ==
    LET at == {i \in 1..Len(s) : s[i] = c}
    IN  IF at = {} THEN 0 ELSE CHOOSE i \in at : \A j \in at : j <= i

\* Path::parent and Path::file_name of a path under the upload root (the
\* root itself is the empty path)
Parent(p) == SubSeq(p, 1, LastIndexOf(p, "/") - 1)
FileName(p) == SubSeq(p, LastIndexOf(p, "/") + 1, Len(p))

\* PathBuf::push of a relative name
Join(dir, name) == IF dir = <<>> THEN name ELSE dir \o <<"/">> \o name

DirExists(d) == d = <<>> \/ d \in dirs

\* open(O_CREAT) needs the directory of the path
CanCreate(p) == Exists(p) \/ DirExists(Parent(p))

\* OpenOptions::new().write(true).create(true).open(target)
OpenCreate(fs, p) ==
    IF p \in DOMAIN fs THEN fs
    ELSE [q \in DOMAIN fs \cup {p} |-> IF q = p THEN <<>> ELSE fs[q]]

\* a truncation that leaves the content as it is
set_len_keeps_content(fs, p) == fs

\* File::set_len(0)
set_len(fs, p) == [fs EXCEPT ![p] = <<>>]

HeldBy(h) == {l \in locks : l.holder = h}

\* an exclusive lock that never waits for another holder
CanLockExclusive_no_wait(p, h) == TRUE

\* flock(LOCK_EX) is granted when no other handle holds any lock on the file
CanLockExclusive(p, h) ==
    \A l \in locks : l.path = p => l.holder = h

\* a shared lock that never waits for the exclusive holder
CanLockShared_no_wait(p, h) == TRUE

\* flock(LOCK_SH) is granted when no other handle holds the exclusive lock
CanLockShared(p, h) ==
    \A l \in locks : (l.path = p /\ l.mode = "exclusive") => l.holder = h

\* a handle that is leaked instead of closed keeps its lock
drop_leaked(ls, h) == ls

\* closing the handle releases the lock it still holds
drop(ls, h) == {l \in ls : l.holder # h}

\* FileExt::unlock
unlock(ls, h) == {l \in ls : l.holder # h}

WHandle(t) == <<"write", t>>
THandle(k) == <<"make", k>>

(***************************************************************************)
(* Strings are sequences of one-character strings                          *)
(***************************************************************************)
\* Path::extension: the part after the last '.', empty when there is none
Extension(p) ==
    IF LastIndexOf(FileName(p), ".") <= 1 THEN <<>>
    ELSE SubSeq(FileName(p), LastIndexOf(FileName(p), ".") + 1, Len(FileName(p)))

\* the formats image::open and DynamicImage::save pick from the file extension
ImageExtensions ==
    { <<"j", "p", "g">>, <<"j", "p", "e", "g">>, <<"p", "n", "g">>,
      <<"g", "i", "f">>, <<"b", "m", "p">>, <<"i", "c", "o">>,
      <<"t", "i", "f">>, <<"t", "i", "f", "f">>, <<"w", "e", "b", "p">> }

\* a content is an image when it starts with the signature chunk ChunkA
IsImage(content) == content # <<>> /\ content[1] = ChunkA

\* image::open picks the decoder from the extension of the path and succeeds
\* when the content is an image
Decodable(p, content) ==
    /\ Extension(p) \in ImageExtensions
    /\ IsImage(content)

\* number of occurrences of character c in s
CountOf(s, c) == Cardinality({i \in 1..Len(s) : s[i] = c})

Contains(s, c) == \E i \in 1..Len(s) : s[i] = c

StartsWith(s, prefix) ==
    /\ Len(s) >= Len(prefix)
    /\ SubSeq(s, 1, Len(prefix)) = prefix

\* index of the first occurrence of character c in s, 0 when there is none
IndexOf(s, c) ==
    LET at == {i \in 1..Len(s) : s[i] = c}
    IN  IF at = {} THEN 0 ELSE CHOOSE i \in at : \A j \in at : i <= j

UpperLetters == <<"A", "B", "C", "D", "E", "F", "G", "H", "I", "J", "K", "L", "M", "N", "O", "P", "Q", "R", "S", "T", "U", "V", "W", "X", "Y", "Z">>
LowerLetters == <<"a", "b", "c", "d", "e", "f", "g", "h", "i", "j", "k", "l", "m", "n", "o", "p", "q", "r", "s", "t", "u", "v", "w", "x", "y", "z">>

\* char::to_lowercase on ASCII
LowerChar(c) ==
    IF c \in {UpperLetters[i] : i \in 1..26}
    THEN LowerLetters[CHOOSE i \in 1..26 : UpperLetters[i] = c]
    ELSE c

\* str::to_lowercase
to_lowercase(s) == [i \in 1..Len(s) |-> LowerChar(s[i])]

Whitespace == {" ", "\t", "\n", "\r"}

\* filename.trim().len() == 0
IsBlank(s) == \A i \in 1..Len(s) : s[i] \in Whitespace

\* Option<T>: None is the empty tuple, Some(x) the tuple of x
None == <<>>
Some(x) == <<x>>
is_some(o) == o # <<>>
unwrap_or(o, d) == IF o # <<>> THEN o[1] ELSE d

(***************************************************************************)
(* file_utils::normalize_image_filename                                    *)
(***************************************************************************)
\* line 41-57: the extension for a MIME type
ext_for(content_type) ==
    IF /\ StartsWith(to_lowercase(content_type), <<"i", "m", "a", "g", "e", "/">>)
       /\ CountOf(content_type, "/") = 1
    THEN LET sub == SubSeq(content_type, IndexOf(content_type, "/") + 1,
                           Len(content_type))
         IN  CASE sub = <<"j", "p", "e", "g">> -> <<"j", "p", "g">>
               [] sub = <<"p", "j", "p", "e", "g">> -> <<"j", "p", "g">>
               [] sub = <<"s", "v", "g", "+", "x", "m", "l">> -> <<"s", "v", "g">>
               [] sub = <<"t", "i", "f", "f">> -> <<"t", "i", "f">>
               [] sub = <<"v", "n", "d", ".", "m", "i", "c", "r", "o", "s", "o", "f", "t", ".", "i", "c", "o", "n">> -> <<"i", "c", "o">>
               [] sub = <<"v", "n", "d", ".", "w", "a", "p", ".", "w", "b", "m", "p">> -> <<"w", "b", "m", "p">>
               [] sub = <<"*">> -> <<"b", "i", "n">>
               [] OTHER -> sub
    ELSE <<"b", "i", "n">>

\* the twelve digits %y%m%d%H%M%S of the second the model runs in
StampSecond == <<"2", "6", "1", "1", "0", "6", "1", "1", "5", "2", "0", "0">>

Digit(n) == <<"0", "1", "2", "3", "4", "5", "6", "7", "8", "9">>[n + 1]

\* line 62: Utc::now().format("%y%m%d%H%M%S%6f"), now in microseconds
FormatStamp(now) ==
    StampSecond \o
    << Digit((now \div 100000) % 10), Digit((now \div 10000) % 10),
       Digit((now \div 1000) % 10), Digit((now \div 100) % 10),
       Digit((now \div 10) % 10), Digit(now % 10) >>

\* a normalization that always ends the name with the extension of the type
normalize_image_filename_forces_extension(filename, content_type, now) ==
    IF IsBlank(filename)
    THEN <<"u", "n", "t", "i", "t", "l", "e", "d", "@">> \o FormatStamp(now) \o <<".">> \o ext_for(content_type)
    ELSE filename \o <<".">> \o ext_for(content_type)

\* line 35-78
normalize_image_filename(filename, content_type, now) ==
    IF IsBlank(filename)
    THEN <<"u", "n", "t", "i", "t", "l", "e", "d", "@">> \o FormatStamp(now) \o <<".">> \o ext_for(content_type)
    ELSE IF ~Contains(filename, ".")
    THEN filename \o <<".">> \o ext_for(content_type)
    ELSE filename

(***************************************************************************)
(* The extractors of http_handlers.rs                                      *)
(***************************************************************************)
B64Alphabet ==
    <<"A", "B", "C", "D", "E", "F", "G", "H", "I", "J", "K", "L", "M", "N", "O", "P", "Q", "R", "S", "T", "U", "V", "W", "X", "Y", "Z">> \o <<"a", "b", "c", "d", "e", "f", "g", "h", "i", "j", "k", "l", "m", "n", "o", "p", "q", "r", "s", "t", "u", "v", "w", "x", "y", "z">> \o
    <<"0", "1", "2", "3", "4", "5", "6", "7", "8", "9", "+", "/">>

B64Val(c) == (CHOOSE i \in 1..64 : B64Alphabet[i] = c) - 1

RECURSIVE StripPadding(_)
StripPadding(s) ==
    IF s # <<>> /\ s[Len(s)] = "=" THEN StripPadding(SubSeq(s, 1, Len(s) - 1))
    ELSE s

RECURSIVE DecodeSymbols(_)
\* four 6-bit symbols give three bytes, three give two, two give one
DecodeSymbols(v) ==
    IF Len(v) >= 4
    THEN << v[1] * 4 + v[2] \div 16,
            (v[2] % 16) * 16 + v[3] \div 4,
            (v[3] % 4) * 64 + v[4] >> \o DecodeSymbols(SubSeq(v, 5, Len(v)))
    ELSE IF Len(v) = 3
    THEN << v[1] * 4 + v[2] \div 16, (v[2] % 16) * 16 + v[3] \div 4 >>
    ELSE IF Len(v) = 2
    THEN << v[1] * 4 + v[2] \div 16 >>
    ELSE <<>>

\* base64::decode: the bytes, or the decoder's error
base64_decode(s) ==
    LET sym == StripPadding(s) IN
    IF \E i \in 1..Len(sym) : \A j \in 1..64 : B64Alphabet[j] # sym[i]
    THEN [ok |-> FALSE, data |-> <<>>, err |-> "Invalid byte"]
    ELSE IF Len(sym) % 4 = 1
    THEN [ok |-> FALSE, data |-> <<>>, err |-> "Invalid length"]
    ELSE [ok |-> TRUE, data |-> DecodeSymbols([i \in 1..Len(sym) |-> B64Val(sym[i])]),
          err |-> ""]

Digits == <<"0", "1", "2", "3", "4", "5", "6", "7", "8", "9">>

RECURSIVE ParseDigits(_, _)
ParseDigits(s, acc) ==
    IF s = <<>> THEN acc
    ELSE ParseDigits(Tail(s), acc * 10 + (CHOOSE d \in 0..9 : Digits[d + 1] = s[1]))

\* str::parse::<usize>: the number, or -1 for a parse error; one leading '+'
\* is accepted
parse_usize(s) ==
    LET digits == IF s # <<>> /\ s[1] = "+" THEN Tail(s) ELSE s IN
    IF digits # <<>> /\ \A i \in 1..Len(digits) : \E d \in 1..10 : Digits[d] = digits[i]
    THEN ParseDigits(digits, 0)
    ELSE -1

\* url.split('/').last()
LastSegment(url) == SubSeq(url, LastIndexOf(url, "/") + 1, Len(url))

Extracted(filename, content_type, data, item) ==
    [ok |-> TRUE, filename |-> filename, content_type |-> content_type,
     data |-> data, err |-> "", item |-> item]

Failed(err, item) ==
    [ok |-> FALSE, filename |-> <<>>, content_type |-> <<>>, data |-> <<>>,
     err |-> err, item |-> item]

\* line 289-325; `take()` leaves the item without its content type
image_from_base64_data(item, now) ==
    IF is_some(item.data)
    THEN LET content_type == unwrap_or(item.content_type, <<"a", "p", "p", "l", "i", "c", "a", "t", "i", "o", "n", "/", "o", "c", "t", "e", "t", "-", "s", "t", "r", "e", "a", "m">>)
             taken == [item EXCEPT !.content_type = None]
             filename == normalize_image_filename(unwrap_or(item.filename, <<>>),
                                                  content_type, now)
             dec == base64_decode(item.data[1])
         IN  IF dec.ok THEN Extracted(filename, content_type, dec.data, taken)
             ELSE Failed(dec.err, taken)
    ELSE Failed("no image data", item)

\* an extractor that looks at Content-Length before the content type
image_from_url_length_first(item, resp, now) ==
    IF is_some(item.url)
    THEN IF resp.sent
         THEN LET content_type == unwrap_or(resp.content_type,
                                            unwrap_or(item.content_type, <<>>))
                  taken == [item EXCEPT !.content_type = None]
                  n == IF is_some(resp.content_length)
                       THEN parse_usize(resp.content_length[1]) ELSE -1
                  filename ==
                      IF is_some(item.filename)
                      THEN normalize_image_filename(item.filename[1], content_type, now)
                      ELSE normalize_image_filename(LastSegment(item.url[1]),
                                                    content_type, now)
              IN  IF n >= 0
                  THEN IF StartsWith(content_type, <<"i", "m", "a", "g", "e", "/">>)
                       THEN IF Len(resp.body) >= n
                            THEN Extracted(filename, content_type,
                                           SubSeq(resp.body, 1, n), taken)
                            ELSE Failed("failed to fill whole buffer", taken)
                       ELSE Failed("not an image", taken)
                  ELSE Failed("invalid content length in response", taken)
         ELSE Failed("transport error", item)
    ELSE Failed("image URL not specified", item)

\* line 329-394; resp is what mrq::get(url).send() returned; the argument of
\* unwrap_or is evaluated whether the header is there or not, so `take()`
\* always empties the item's content type once a response arrived
image_from_url(item, resp, now) ==
    IF is_some(item.url)
    THEN IF resp.sent
         THEN LET content_type == unwrap_or(resp.content_type,
                                            unwrap_or(item.content_type, <<>>))
                  taken == [item EXCEPT !.content_type = None]
                  n == IF is_some(resp.content_length)
                       THEN parse_usize(resp.content_length[1]) ELSE -1
                  filename ==
                      IF is_some(item.filename)
                      THEN normalize_image_filename(item.filename[1], content_type, now)
                      ELSE normalize_image_filename(LastSegment(item.url[1]),
                                                    content_type, now)
              IN  IF StartsWith(content_type, <<"i", "m", "a", "g", "e", "/">>)
                  THEN IF n >= 0
                       THEN IF Len(resp.body) >= n
                            THEN Extracted(filename, content_type,
                                           SubSeq(resp.body, 1, n), taken)
                            ELSE Failed("failed to fill whole buffer", taken)
                       ELSE Failed("invalid content length in response", taken)
                  ELSE Failed("not an image", taken)
         ELSE Failed("transport error", item)
    ELSE Failed("image URL not specified", item)

\* an extractor that never falls back to the field name
image_from_multipart_field_no_name(field, now) ==
    IF /\ is_some(field.content_type)
       /\ StartsWith(to_lowercase(field.content_type[1]), <<"i", "m", "a", "g", "e", "/">>)
    THEN Extracted(normalize_image_filename(unwrap_or(field.filename, <<>>),
                                            to_lowercase(field.content_type[1]), now),
                   to_lowercase(field.content_type[1]), field.data, field)
    ELSE Failed("no image data", field)

\* line 251-285; Mime::to_string gives the type in lower case
image_from_multipart_field(field, now) ==
    IF /\ is_some(field.content_type)
       /\ StartsWith(to_lowercase(field.content_type[1]), <<"i", "m", "a", "g", "e", "/">>)
    THEN LET content_type == to_lowercase(field.content_type[1])
             filename == normalize_image_filename(
                             unwrap_or(field.filename, field.name), content_type, now)
         IN  Extracted(filename, content_type, field.data, field)
    ELSE Failed("no image data", field)

(***************************************************************************)
(* file_utils::write_image_data, one action per step of the call           *)
(***************************************************************************)
\* the frame of a call that is about to start
WriteCall(source, target) ==
    [pc |-> "open", target |-> target, source |-> source, consumed |-> 0,
     pos |-> 0, created |-> FALSE, locked |-> FALSE, unlocked |-> FALSE,
     res |-> Pending]

NoCall == [WriteCall(<<>>, <<>>) EXCEPT !.pc = "idle"]

\* line 104-112: open for write, creating the file; an error returns
WOpen(t) ==
    /\ wr[t].pc = "open"
    /\ \/ /\ CanCreate(wr[t].target)
          /\ files' = OpenCreate(files, wr[t].target)
          /\ wr' = [wr EXCEPT ![t].pc = "lock_exclusive",
                               ![t].created = ~Exists(wr[t].target)]
       \/ /\ ~CanCreate(wr[t].target) \/ faulty
          /\ wr' = [wr EXCEPT ![t].pc = "returned", ![t].res = Err("open")]
          /\ UNCHANGED files
    /\ UNCHANGED <<dirs, faulty, call, locks, tasks, hd, clock>>

\* a lock step that truncates the file before it reports its failure
WLock_truncates_first(t) ==
    /\ wr[t].pc = "lock_exclusive"
    /\ \/ /\ CanLockExclusive(wr[t].target, WHandle(t))
          /\ locks' = locks \cup {[path |-> wr[t].target, holder |-> WHandle(t),
                                   mode |-> "exclusive"]}
          /\ wr' = [wr EXCEPT ![t].pc = "set_len", ![t].locked = TRUE]
          /\ UNCHANGED files
       \/ /\ faulty
          /\ files' = set_len(files, wr[t].target)
          /\ wr' = [wr EXCEPT ![t].pc = "drop", ![t].res = Err("lock")]
          /\ UNCHANGED locks
    /\ UNCHANGED <<dirs, faulty, call, tasks, hd, clock>>

\* line 114-122: blocking exclusive lock; an error returns (the handle drops)
WLock(t) ==
    /\ wr[t].pc = "lock_exclusive"
    /\ \/ /\ CanLockExclusive(wr[t].target, WHandle(t))
          /\ locks' = locks \cup {[path |-> wr[t].target, holder |-> WHandle(t),
                                   mode |-> "exclusive"]}
          /\ wr' = [wr EXCEPT ![t].pc = "set_len", ![t].locked = TRUE]
       \/ /\ faulty
          /\ wr' = [wr EXCEPT ![t].pc = "drop", ![t].res = Err("lock")]
          /\ UNCHANGED locks
    /\ UNCHANGED <<files, dirs, faulty, call, tasks, hd, clock>>

\* line 124: truncate; an error returns at once (the handle drops)
WSetLen(t) ==
    /\ wr[t].pc = "set_len"
    /\ \/ /\ files' = set_len(files, wr[t].target)
          /\ wr' = [wr EXCEPT ![t].pc = "copy"]
       \/ /\ faulty
          /\ wr' = [wr EXCEPT ![t].pc = "drop", ![t].res = Err("set_len")]
          /\ UNCHANGED files
    /\ UNCHANGED <<dirs, faulty, call, locks, tasks, hd, clock>>

\* a copy that empties the file again when it fails
WCopy_discards_on_failure(t) ==
    /\ wr[t].pc = "copy"
    /\ \/ /\ wr[t].consumed < Len(wr[t].source)
          /\ files' = [files EXCEPT ![wr[t].target] =
                          WriteAt(@, wr[t].pos, wr[t].source[wr[t].consumed + 1])]
          /\ wr' = [wr EXCEPT ![t].consumed = @ + 1, ![t].pos = @ + 1]
       \/ /\ faulty
          /\ wr[t].consumed < Len(wr[t].source)
          /\ wr' = [wr EXCEPT ![t].pc = "unlock", ![t].res = Err("copy")]
          /\ files' = set_len(files, wr[t].target)
       \/ /\ wr[t].consumed = Len(wr[t].source)
          /\ wr' = [wr EXCEPT ![t].pc = "unlock", ![t].res = Ok(wr[t].consumed)]
          /\ UNCHANGED files
    /\ UNCHANGED <<dirs, faulty, call, locks, tasks, hd, clock>>

\* line 126: io::copy, one chunk per step; the result is the byte count at the
\* end of the source, or the first error
WCopy(t) ==
    /\ wr[t].pc = "copy"
    /\ \/ /\ wr[t].consumed < Len(wr[t].source)
          /\ files' = [files EXCEPT ![wr[t].target] =
                          WriteAt(@, wr[t].pos, wr[t].source[wr[t].consumed + 1])]
          /\ wr' = [wr EXCEPT ![t].consumed = @ + 1, ![t].pos = @ + 1]
       \/ /\ faulty
          /\ wr[t].consumed < Len(wr[t].source)
          /\ wr' = [wr EXCEPT ![t].pc = "unlock", ![t].res = Err("copy")]
          /\ UNCHANGED files
       \/ /\ wr[t].consumed = Len(wr[t].source)
          /\ wr' = [wr EXCEPT ![t].pc = "unlock", ![t].res = Ok(wr[t].consumed)]
          /\ UNCHANGED files
    /\ UNCHANGED <<dirs, faulty, call, locks, tasks, hd, clock>>

\* an unlock step whose failure becomes the result of the call
WUnlock_reports_error(t) ==
    /\ wr[t].pc = "unlock"
    /\ \/ /\ locks' = unlock(locks, WHandle(t))
          /\ wr' = [wr EXCEPT ![t].pc = "drop", ![t].unlocked = TRUE]
       \/ /\ faulty /\ UNCHANGED locks
          /\ wr' = [wr EXCEPT ![t].pc = "drop", ![t].unlocked = TRUE,
                               ![t].res = Err("unlock")]
    /\ UNCHANGED <<files, dirs, faulty, call, tasks, hd, clock>>

\* line 136-143: unlock; a failure is logged and the lock stays with the handle
WUnlock(t) ==
    /\ wr[t].pc = "unlock"
    /\ \/ locks' = unlock(locks, WHandle(t))
       \/ faulty /\ UNCHANGED locks
    /\ wr' = [wr EXCEPT ![t].pc = "drop", ![t].unlocked = TRUE]
    /\ UNCHANGED <<files, dirs, faulty, call, tasks, hd, clock>>

\* line 150-151 (and every `?`): the function returns and `file` is dropped
WReturn(t) ==
    /\ wr[t].pc = "drop"
    /\ locks' = drop(locks, WHandle(t))
    /\ wr' = [wr EXCEPT ![t].pc = "returned"]
    /\ UNCHANGED <<files, dirs, faulty, call, tasks, hd, clock>>

write_image_data(t) ==
    WOpen(t) \/ WLock(t) \/ WSetLen(t) \/ WCopy(t) \/ WUnlock(t) \/ WReturn(t)

(***************************************************************************)
(* thumbnail::make, one action per step of the call                        *)
(***************************************************************************)
\* line 58-60: the thumbnails directory next to the file, and line 63 the
\* thumbnail's path in it
ThumbDir(path) == Join(Parent(path), <<"t", "h", "u", "m", "b", "n", "a", "i", "l", "s">>)
ThumbPath(path) == Join(ThumbDir(path), FileName(path))

\* fs::create_dir_all: the directory of the file exists already, the
\* thumbnails directory is added to it
create_dir_all(ds, d) == ds \cup {d}

\* line 56: the side of the square a thumbnail fills
ThumbSide == 100

\* DynamicImage::resize_to_fill: an image of w x h made of the pixels of img
\* (the signature chunk, the dimensions, the chunks after the signature)
resize_to_fill(img, w, h) == <<ChunkA, w, h>> \o Tail(img)

\* DynamicImage::save: File::create (create or truncate) and the encoded image
save(fs, p, img) ==
    [q \in DOMAIN fs \cup {p} |-> IF q = p THEN img ELSE fs[q]]

\* by: the handler and item the call was spawned for (empty for a direct call)
MakeCall(path, by) ==
    [pc |-> "open", path |-> path, by |-> by, buf |-> <<>>, eof |-> FALSE,
     decoded |-> FALSE, locked |-> FALSE]

\* the call returned: its frame is gone
Returned(k) == [MakeCall(tasks[k].path, tasks[k].by) EXCEPT !.pc = "done"]

\* line 12-21: open for read; an error returns
MOpen(k) ==
    /\ tasks[k].pc = "open"
    /\ \/ /\ Exists(tasks[k].path)
          /\ tasks' = [tasks EXCEPT ![k].pc = "lock_shared"]
       \/ /\ faulty \/ ~Exists(tasks[k].path)
          /\ tasks' = [tasks EXCEPT ![k] = Returned(k)]
    /\ UNCHANGED <<files, dirs, faulty, call, locks, wr, hd, clock>>

\* line 23-31: blocking shared lock; an error returns (the handle drops)
MLock(k) ==
    /\ tasks[k].pc = "lock_shared"
    /\ \/ /\ CanLockShared(tasks[k].path, THandle(k))
          /\ locks' = locks \cup {[path |-> tasks[k].path, holder |-> THandle(k),
                                   mode |-> "shared"]}
          /\ tasks' = [tasks EXCEPT ![k].pc = "decode", ![k].locked = TRUE]
       \/ /\ faulty
          /\ tasks' = [tasks EXCEPT ![k] = Returned(k)]
          /\ UNCHANGED locks
    /\ UNCHANGED <<files, dirs, faulty, call, wr, hd, clock>>

\* line 33: image::open reads the file chunk by chunk up to its end and decodes
MDecode(k) ==
    /\ tasks[k].pc = "decode"
    /\ \/ /\ Len(tasks[k].buf) < Len(files[tasks[k].path])
          /\ tasks' = [tasks EXCEPT ![k].buf =
                          Append(@, files[tasks[k].path][Len(@) + 1])]
       \/ /\ Len(tasks[k].buf) >= Len(files[tasks[k].path])
          /\ tasks' = [tasks EXCEPT ![k].pc = "unlock", ![k].eof = TRUE,
                          ![k].decoded = Decodable(tasks[k].path, tasks[k].buf)]
       \/ faulty /\ tasks' = [tasks EXCEPT ![k].pc = "unlock"]
    /\ UNCHANGED <<files, dirs, faulty, call, locks, wr, hd, clock>>

\* a call that goes on to the thumbnail whatever image::open returned
after_decode_always(decoded) == "create_dir_all"

\* line 33, 43, 52: the Ok arm of image::open yields the image, the else arm
\* returns
after_decode(decoded) == IF decoded THEN "create_dir_all" ELSE "done"

\* a call that goes on with its lock
MUnlock_keeps_lock(k) ==
    /\ tasks[k].pc = "unlock"
    /\ tasks' = [tasks EXCEPT ![k] =
                    IF after_decode(tasks[k].decoded) = "done" THEN Returned(k)
                    ELSE [@ EXCEPT !.pc = after_decode(tasks[k].decoded)]]
    /\ UNCHANGED <<files, dirs, faulty, call, locks, wr, hd, clock>>

\* line 34-53: unlock in both branches (a failure is logged); `file` is dropped
\* where its block ends; a failed decode returns
MUnlock(k) ==
    /\ tasks[k].pc = "unlock"
    /\ \/ locks' = drop(unlock(locks, THandle(k)), THandle(k))
       \/ faulty /\ locks' = drop(locks, THandle(k))
    /\ tasks' = [tasks EXCEPT ![k] =
                    IF after_decode(tasks[k].decoded) = "done" THEN Returned(k)
                    ELSE [@ EXCEPT !.pc = after_decode(tasks[k].decoded)]]
    /\ UNCHANGED <<files, dirs, faulty, call, wr, hd, clock>>

\* line 56-73: resize, then create the thumbnails directory; an error returns
MCreateDir(k) ==
    /\ tasks[k].pc = "create_dir_all"
    /\ \/ /\ dirs' = create_dir_all(dirs, ThumbDir(tasks[k].path))
          /\ tasks' = [tasks EXCEPT ![k].pc = "save"]
       \/ /\ faulty
          /\ tasks' = [tasks EXCEPT ![k] = Returned(k)]
          /\ UNCHANGED dirs
    /\ UNCHANGED <<files, faulty, call, locks, wr, hd, clock>>

\* line 75-84: save the thumbnail under the same file name; an error is logged
MSave(k) ==
    /\ tasks[k].pc = "save"
    /\ \/ files' = save(files, ThumbPath(tasks[k].path),
                         resize_to_fill(tasks[k].buf, ThumbSide, ThumbSide))
       \/ faulty /\ UNCHANGED files
    /\ tasks' = [tasks EXCEPT ![k] = Returned(k)]
    /\ UNCHANGED <<dirs, faulty, call, locks, wr, hd, clock>>

make(k) ==
    MOpen(k) \/ MLock(k) \/ MDecode(k) \/ MUnlock(k) \/ MCreateDir(k) \/ MSave(k)

(***************************************************************************)
(* Direct calls: two writers and two thumbnail readers contend for one     *)
(* path (file_utils.rs test_write_image_data)                              *)
(***************************************************************************)
Writers == {"w1", "w2"}

\* what the path may hold before the calls: one chunk more than any payload
PriorContent == [i \in 1..(MaxLen + 1) |-> IF i % 2 = 1 THEN ChunkB ELSE ChunkA]

NoFiles == [q \in {} |-> <<>>]

\* no function is called directly
NoDirectCall == <<>>

InitFS ==
    /\ files \in {NoFiles, [q \in {TestPath} |-> PriorContent]}
    /\ dirs = {}
    /\ faulty = TRUE
    /\ locks = {}
    /\ wr \in {f \in [Writers -> {WriteCall(s, TestPath) : s \in Payloads}] :
                    f["w2"].source = PayloadB}
    /\ tasks = <<MakeCall(TestPath, <<>>), MakeCall(TestPath, <<>>)>>
    /\ hd = <<>>
    /\ clock = 0
    /\ call = NoDirectCall

WriterStep == \E t \in DOMAIN wr : write_image_data(t)

MakeStep == \E k \in DOMAIN tasks : make(k)

NextFS == WriterStep \/ MakeStep

SpecFS == InitFS /\ [][NextFS]_vars

(***************************************************************************)
(* The batch handlers of http_handlers.rs                                  *)
(***************************************************************************)
\* line 96-102
ImageUploadResult(filename, content_type, size, success, reason) ==
    [filename |-> filename, content_type |-> content_type, size |-> size,
     success |-> success, reason |-> reason]

\* line 105-110
ImageUploadRequest(filename, content_type, url, data) ==
    [filename |-> filename, content_type |-> content_type, url |-> url, data |-> data]

\* a field of a multipart body: its headers and its data
MultipartField(name, filename, content_type, data) ==
    [name |-> name, filename |-> filename, content_type |-> content_type,
     data |-> data]

\* what mrq::get(url).send() may return
Sent(content_type, content_length, body) ==
    [sent |-> TRUE, content_type |-> content_type,
     content_length |-> content_length, body |-> body]

TransportError ==
    [sent |-> FALSE, content_type |-> None, content_length |-> None, body |-> <<>>]

Responses ==
    { TransportError,
      Sent(Some(<<"i", "m", "a", "g", "e", "/", "p", "n", "g">>), Some(<<"1">>), <<ChunkA>>),
      Sent(None, Some(<<"1">>), <<ChunkA>>),
      Sent(Some(<<"t", "e", "x", "t", "/", "h", "t", "m", "l">>), Some(<<"1">>), <<ChunkB>>),
      Sent(Some(<<"t", "e", "x", "t", "/", "h", "t", "m", "l">>), None, <<ChunkB>>),
      Sent(Some(<<"i", "m", "a", "g", "e", "/", "p", "n", "g">>), None, <<ChunkA>>),
      Sent(Some(<<"i", "m", "a", "g", "e", "/", "p", "n", "g">>), Some(<<"x">>), <<ChunkA>>),
      Sent(Some(<<"i", "m", "a", "g", "e", "/", "p", "n", "g">>), Some(<<"2">>), <<ChunkA>>) }

\* line 126, 147: PathBuf::set_file_name: the last component is popped and
\* the name is pushed; paths are relative to the upload root
set_file_name(file_path, filename) == Join(Parent(file_path), filename)

\* a mapping that forgets the error arm
write_outcome_always_ok(res) ==
    [success |-> res.ok, size |-> res.n, reason |-> "ok"]

\* line 149-152: the write's result as (success, size, reason)
write_outcome(res) ==
    IF res.ok THEN [success |-> TRUE, size |-> res.n, reason |-> "ok"]
    ELSE [success |-> FALSE, size |-> 0, reason |-> "I/O error"]

\* an outcome that reports the name the item declared
written_declared_name(r, res) ==
    ImageUploadResult(unwrap_or(r.item.filename, <<>>), r.content_type,
                      write_outcome(res).size, write_outcome(res).success,
                      write_outcome(res).reason)

\* line 154-160 / 214-220: the outcome of an item that was extracted as r and
\* whose write returned res
written(r, res) ==
    ImageUploadResult(r.filename, r.content_type, write_outcome(res).size,
                      write_outcome(res).success, write_outcome(res).reason)

\* line 134-140, 170-176: the outcome of a JSON item whose extractor failed,
\* from what the extractor left of the item
json_failure(r) ==
    ImageUploadResult(unwrap_or(r.item.filename, <<>>),
                      unwrap_or(r.item.content_type, <<>>), 0, FALSE, r.err)

\* line 230-240: the outcome of a multipart field that was rejected
multipart_failure(r) ==
    ImageUploadResult(r.item.name,
                      IF is_some(r.item.content_type)
                      THEN to_lowercase(r.item.content_type[1]) ELSE <<>>,
                      0, FALSE, r.err)

\* a push at the wrong end
push_front(results, outcome) == <<outcome>> \o results

\* line 154, 170: Vec::push
push(results, outcome) == Append(results, outcome)

\* a match that writes in both arms
writes_always(r) == TRUE

\* line 145-146, 169: only the Ok arm of the match writes
writes(r) == r.ok

\* a handler that spawns no thread
spawns_never(res) == FALSE

\* line 162-167: the thumbnail thread is spawned in the Ok arm of the
\* extractor match, after the outcome is pushed, whatever the write returned
spawns(res) == TRUE

\* a loop that breaks at the first failure
after_item_break(idx, n, success) == IF success THEN idx + 1 ELSE n + 1

\* line 128, 142, 179 / 204, 243: the loop goes on to the next item whatever
\* the outcome of this one was
after_item(idx, n, success) == idx + 1

\* a dispatch that looks at url first
selected_url_first(item) ==
    IF is_some(item.url) THEN "url"
    ELSE IF is_some(item.data) THEN "base64"
    ELSE "none"

\* line 129-143: the extractor for an item
selected(item) ==
    IF is_some(item.data) THEN "base64"
    ELSE IF is_some(item.url) THEN "url"
    ELSE "none"

\* the name normalize_image_filename is called with, when it is called
declared_name(item) ==
    IF selected(item) = "base64" THEN unwrap_or(item.filename, <<>>)
    ELSE IF is_some(item.filename) THEN item.filename[1]
    ELSE IF is_some(item.url) THEN LastSegment(item.url[1]) ELSE <<"x">>

\* Utc::now() is read only for a blank name; it never runs backwards
NowChoices(name) == IF IsBlank(name) THEN clock..MaxClock ELSE {clock}

\* items: the elements of the body in order; parseable: whether the body as a
\* whole deserializes (one element of a wrong shape makes it malformed)
Handler(kind, parseable, items) ==
    [kind |-> kind, parseable |-> parseable, items |-> items, idx |-> 1,
     results |-> <<>>, file_path |-> <<"p", "l", "a", "c", "e", "h", "o", "l", "d", "e", "r", ".", "b", "i", "n">>, pc |-> "parse",
     status |-> 0, cur |-> Failed("", <<>>), env |-> <<>>]

\* a parser that lets a malformed body through to the loop
Parse_lenient(h) ==
    /\ hd[h].pc = "parse"
    /\ hd' = [hd EXCEPT ![h].pc = "loop"]
    /\ UNCHANGED <<files, dirs, faulty, call, locks, wr, tasks, clock>>

\* line 122 / 193-199: the body is parsed; a malformed one is answered 400
Parse(h) ==
    /\ hd[h].pc = "parse"
    /\ hd' = [hd EXCEPT ![h].pc = IF hd[h].parseable THEN "loop" ELSE "responded",
                        ![h].status = IF hd[h].parseable THEN 0 ELSE 400]
    /\ UNCHANGED <<files, dirs, faulty, call, locks, wr, tasks, clock>>

\* what happened to an item (kept for the properties): the response and the
\* time its extractor saw, the path write_image_data was called with, what it
\* returned, the upload root before and after the item, and the url its
\* extractor sent a GET to
Env(resp, now) ==
    [resp |-> resp, now |-> now, target |-> None, wres |-> Pending,
     before |-> files, after |-> files, get |-> None]

\* the extractor returned r for the item: the Ok arm starts the write, the
\* Err arm pushes the failure outcome o
Extract(h, r, o, e) ==
    IF writes(r)
    THEN /\ hd' = [hd EXCEPT ![h].file_path = set_file_name(@, r.filename),
                             ![h].cur = r, ![h].pc = "write",
                             ![h].env = Append(@, [e EXCEPT !.target =
                                 Some(set_file_name(hd[h].file_path, r.filename))])]
         /\ wr' = [wr EXCEPT ![h] =
                      WriteCall(r.data, set_file_name(hd[h].file_path, r.filename))]
    ELSE /\ hd' = [hd EXCEPT ![h].results = push(@, o),
                             ![h].idx = after_item(@, Len(hd[h].items), FALSE),
                             ![h].env = Append(@, e)]
         /\ UNCHANGED wr

\* line 129-145: the selected extractor applied to the item
extract_json(item, resp, now) ==
    CASE selected(item) = "base64" -> image_from_base64_data(item, now)
      [] selected(item) = "url" -> image_from_url(item, resp, now)
      [] OTHER -> Failed("nor url or data are specified", item)

\* an extractor that sends the request whenever the item has a url
requests_every_url(item) == item.url

\* line 129-132, 332-333: the url a GET is sent to for the item: only
\* image_from_url sends one, and it is called only for an item without data
requests(item) == IF selected(item) = "url" THEN item.url ELSE None

\* line 128-146, 169-178: one item of the JSON batch up to the write
JsonItem(h) ==
    /\ hd[h].kind = "json" /\ hd[h].pc = "loop"
    /\ hd[h].idx <= Len(hd[h].items)
    /\ LET item == hd[h].items[hd[h].idx] IN
       \E resp \in (IF is_some(requests(item)) THEN Responses ELSE {TransportError}),
          now \in NowChoices(declared_name(item)) :
          LET r == extract_json(item, resp, now)
          IN  /\ Extract(h, r, json_failure(r),
                         [Env(resp, now) EXCEPT !.get = requests(item)])
              /\ clock' = now
    /\ UNCHANGED <<files, dirs, faulty, call, locks, tasks>>

\* line 204-206, 229-241: one field of the multipart body up to the write
MultipartItem(h) ==
    /\ hd[h].kind = "multipart" /\ hd[h].pc = "loop"
    /\ hd[h].idx <= Len(hd[h].items)
    /\ LET field == hd[h].items[hd[h].idx] IN
       \E now \in NowChoices(unwrap_or(field.filename, field.name)) :
          LET r == image_from_multipart_field(field, now)
          IN  /\ Extract(h, r, multipart_failure(r), Env(TransportError, now))
              /\ clock' = now
    /\ UNCHANGED <<files, dirs, faulty, call, locks, tasks>>

\* a handler that goes on to the next item while the write is still running
AfterWrite_without_waiting(h) ==
    /\ hd[h].pc = "write"
    /\ LET o == written(hd[h].cur, wr[h].res) IN
       hd' = [hd EXCEPT ![h].results = push(@, o),
                        ![h].idx = after_item(@, Len(hd[h].items), o.success),
                        ![h].pc = "loop",
                        ![h].env[hd[h].idx].wres = wr[h].res,
                        ![h].env[hd[h].idx].after = files]
    /\ tasks' = IF spawns(wr[h].res)
                THEN Append(tasks, MakeCall(hd[h].file_path, <<h, hd[h].idx>>))
                ELSE tasks
    /\ UNCHANGED <<files, dirs, faulty, call, locks, wr, clock>>

\* line 149-167 / 209-227: write_image_data returned; its outcome is pushed
\* and the thumbnail thread is spawned
AfterWrite(h) ==
    /\ hd[h].pc = "write"
    /\ wr[h].pc = "returned"
    /\ LET o == written(hd[h].cur, wr[h].res) IN
       hd' = [hd EXCEPT ![h].results = push(@, o),
                        ![h].idx = after_item(@, Len(hd[h].items), o.success),
                        ![h].pc = "loop",
                        ![h].env[hd[h].idx].wres = wr[h].res,
                        ![h].env[hd[h].idx].after = files]
    /\ tasks' = IF spawns(wr[h].res)
                THEN Append(tasks, MakeCall(hd[h].file_path, <<h, hd[h].idx>>))
                ELSE tasks
    /\ UNCHANGED <<files, dirs, faulty, call, locks, wr, clock>>

\* a handler that joins the threads it spawned before it responds
Respond_after_join(h) ==
    /\ hd[h].pc = "loop"
    /\ hd[h].idx > Len(hd[h].items)
    /\ \A k \in DOMAIN tasks : tasks[k].by[1] = h => tasks[k].pc = "done"
    /\ hd' = [hd EXCEPT ![h].pc = "responded", ![h].status = 200]
    /\ UNCHANGED <<files, dirs, faulty, call, locks, wr, tasks, clock>>

\* line 181-182 / 245-246: the loop is over, the results are the response
Respond(h) ==
    /\ hd[h].pc = "loop"
    /\ hd[h].idx > Len(hd[h].items)
    /\ hd' = [hd EXCEPT ![h].pc = "responded", ![h].status = 200]
    /\ UNCHANGED <<files, dirs, faulty, call, locks, wr, tasks, clock>>

handle_json_images_post(h) ==
    /\ hd[h].kind = "json"
    /\ Parse(h) \/ JsonItem(h) \/ AfterWrite(h) \/ Respond(h)

handle_multipart_images_post(h) ==
    /\ hd[h].kind = "multipart"
    /\ Parse(h) \/ MultipartItem(h) \/ AfterWrite(h) \/ Respond(h)

(***************************************************************************)
(* One request on an empty upload directory, up to its response.  The      *)
(* thumbnail threads it spawns are detached: they are recorded in `tasks`  *)
(* in spawn order and none of them is scheduled before the response.       *)
(***************************************************************************)
JsonItems ==
    { ImageUploadRequest(Some(<<"a", ".", "p", "n", "g">>), Some(<<"i", "m", "a", "g", "e", "/", "p", "n", "g">>), None, Some(<<"p", "Q", "=", "=">>)),
      ImageUploadRequest(Some(<<"b">>), Some(<<"i", "m", "a", "g", "e", "/", "p", "n", "g">>), None, Some(<<"!", "!">>)),
      ImageUploadRequest(None, None, None, Some(<<"W", "g", "=", "=">>)),
      ImageUploadRequest(None, Some(<<"i", "m", "a", "g", "e", "/", "j", "p", "e", "g">>), Some(<<"h", "/", "u">>), None),
      ImageUploadRequest(Some(<<"c", ".", "p", "n", "g">>), Some(<<"i", "m", "a", "g", "e", "/", "p", "n", "g">>), Some(<<"h", "/", "u">>), Some(<<"p", "Q", "=", "=">>)),
      ImageUploadRequest(None, None, None, None) }

\* the batch of the handler's unit test: a url, base64 data, an empty item
Scenario1 ==
    << ImageUploadRequest(None, Some(<<"i", "m", "a", "g", "e", "/", "j", "p", "e", "g">>), Some(<<"h", "/", "u">>), None),
       ImageUploadRequest(Some(<<"a", ".", "p", "n", "g">>), Some(<<"i", "m", "a", "g", "e", "/", "p", "n", "g">>), None, Some(<<"p", "Q", "=", "=">>)),
       ImageUploadRequest(None, None, None, None) >>

MultipartFields ==
    { MultipartField(<<"f", "i", "l", "e">>, Some(<<"s", ".", "j", "p", "g">>), Some(<<"i", "m", "a", "g", "e", "/", "j", "p", "e", "g">>), <<ChunkA>>),
      MultipartField(<<"n">>, None, Some(<<"i", "m", "a", "g", "e", "/", "P", "N", "G">>), <<ChunkB, ChunkA>>),
      MultipartField(<<"t">>, Some(<<"t", ".", "t", "x", "t">>), Some(<<"t", "e", "x", "t", "/", "p", "l", "a", "i", "n">>), <<ChunkB>>),
      MultipartField(<<"x">>, None, None, <<ChunkA>>) }

\* the body of the multipart unit test: a JPEG with a filename, a PNG with a
\* field name only, a text part
Scenario2 ==
    << MultipartField(<<"f", "i", "l", "e">>, Some(<<"s", ".", "j", "p", "g">>), Some(<<"i", "m", "a", "g", "e", "/", "j", "p", "e", "g">>), <<ChunkA>>),
       MultipartField(<<"n">>, None, Some(<<"i", "m", "a", "g", "e", "/", "P", "N", "G">>), <<ChunkB, ChunkA>>),
       MultipartField(<<"t">>, Some(<<"t", ".", "t", "x", "t">>), Some(<<"t", "e", "x", "t", "/", "p", "l", "a", "i", "n">>), <<ChunkB>>) >>

BatchesOf(S) == UNION {[1..n -> S] : n \in 0..MaxBatch}

Requests ==
    {Handler("json", TRUE, b) : b \in BatchesOf(JsonItems) \cup {Scenario1}}
    \cup {Handler("multipart", TRUE, b) : b \in BatchesOf(MultipartFields) \cup {Scenario2}}
    \cup {Handler("json", FALSE, b) : b \in BatchesOf(JsonItems)}
    \cup {Handler("multipart", FALSE, b) : b \in BatchesOf(MultipartFields)}

Init ==
    /\ files = NoFiles
    /\ dirs = {}
    /\ faulty = TRUE
    /\ locks = {}
    /\ hd \in [{"h1"} -> Requests]
    /\ wr = [h \in {"h1"} |-> NoCall]
    /\ tasks = <<>>
    /\ clock = 0
    /\ call = NoDirectCall

JsonStep == \E h \in DOMAIN hd : handle_json_images_post(h)

MultipartStep == \E h \in DOMAIN hd : handle_multipart_images_post(h)

Next == JsonStep \/ MultipartStep \/ WriterStep

Spec == Init /\ [][Next]_vars

(***************************************************************************)
(* One request together with the thumbnail threads it spawns, which run    *)
(* concurrently with the rest of the request and after its response.       *)
(***************************************************************************)
\* an unnamed, untyped image
UnnamedImage ==
    ImageUploadRequest(None, None, None, Some(<<"p", "Q", "=", "=">>))

\* an image, then other data under the same name
SameName ==
    << ImageUploadRequest(Some(<<"a", ".", "p", "n", "g">>), Some(<<"i", "m", "a", "g", "e", "/", "p", "n", "g">>), None, Some(<<"p", "Q", "=", "=">>)),
       ImageUploadRequest(Some(<<"a", ".", "p", "n", "g">>), Some(<<"i", "m", "a", "g", "e", "/", "p", "n", "g">>), None, Some(<<"W", "g", "=", "=">>)) >>

\* an image, then an image whose name has a directory part
IntoThumbnails ==
    << ImageUploadRequest(Some(<<"a", ".", "p", "n", "g">>), Some(<<"i", "m", "a", "g", "e", "/", "p", "n", "g">>), None, Some(<<"p", "Q", "=", "=">>)),
       ImageUploadRequest(Some(<<"t", "h", "u", "m", "b", "n", "a", "i", "l", "s", "/", "b", ".", "p", "n", "g">>), Some(<<"i", "m", "a", "g", "e", "/", "p", "n", "g">>), None, Some(<<"p", "Q", "=", "=">>)) >>

\* an image named into the thumbnails directory, then an image with a plain name
AfterSubdir ==
    << ImageUploadRequest(Some(<<"t", "h", "u", "m", "b", "n", "a", "i", "l", "s", "/", "b", ".", "p", "n", "g">>), Some(<<"i", "m", "a", "g", "e", "/", "p", "n", "g">>), None, Some(<<"p", "Q", "=", "=">>)),
       ImageUploadRequest(Some(<<"a", ".", "p", "n", "g">>), Some(<<"i", "m", "a", "g", "e", "/", "p", "n", "g">>), None, Some(<<"p", "Q", "=", "=">>)) >>

\* an image, then other data named as the thumbnail of that image
OverThumbnail ==
    << ImageUploadRequest(Some(<<"a", ".", "p", "n", "g">>), Some(<<"i", "m", "a", "g", "e", "/", "p", "n", "g">>), None, Some(<<"p", "Q", "=", "=">>)),
       ImageUploadRequest(Some(<<"t", "h", "u", "m", "b", "n", "a", "i", "l", "s", "/", "a", ".", "p", "n", "g">>), Some(<<"i", "m", "a", "g", "e", "/", "p", "n", "g">>), None, Some(<<"W", "g", "=", "=">>)) >>

\* the directories of the upload root before the request: AfterSubdir runs on
\* a root whose thumbnails directory an earlier request has left
RootDirs(items) ==
    IF items = AfterSubdir THEN {<<"t", "h", "u", "m", "b", "n", "a", "i", "l", "s">>} ELSE {}

\* an image that declares an empty content type
EmptyType ==
    ImageUploadRequest(Some(<<"a", ".", "p", "n", "g">>), Some(<<>>), None, Some(<<"p", "Q", "=", "=">>))

\* one JPEG field
OneField ==
    << MultipartField(<<"f", "i", "l", "e">>, Some(<<"s", ".", "j", "p", "g">>), Some(<<"i", "m", "a", "g", "e", "/", "j", "p", "e", "g">>), <<ChunkA>>) >>

RequestsT ==
    {Handler("json", TRUE, b) :
        b \in {<<UnnamedImage>>, SameName, IntoThumbnails}}
    \cup {Handler("multipart", TRUE, OneField)}

InitT ==
    /\ files = NoFiles
    /\ faulty \in BOOLEAN
    /\ locks = {}
    /\ hd \in [{"h1"} -> RequestsT]
    /\ dirs = RootDirs(hd["h1"].items)
    /\ wr = [h \in {"h1"} |-> NoCall]
    /\ tasks = <<>>
    /\ clock = 0
    /\ call = NoDirectCall

NextT == JsonStep \/ MultipartStep \/ WriterStep \/ MakeStep

\* the thread of spawned task k
MakeTask(k) == k \in DOMAIN tasks /\ make(k)

\* every thread (the request's and each thumbnail's) keeps running
SpecT ==
    /\ InitT /\ [][NextT]_vars
    /\ WF_vars(JsonStep) /\ WF_vars(MultipartStep) /\ WF_vars(WriterStep)
    /\ \A k \in 1..MaxBatch : WF_vars(MakeTask(k))

(***************************************************************************)
(* The same, for batches whose names have a directory part or whose type   *)
(* is empty; no scheduling is assumed.                                     *)
(***************************************************************************)
\* two items that carry a url and data: the data of the first is not
\* base64, the data of the second is
UrlAndData ==
    << ImageUploadRequest(Some(<<"d", ".", "p", "n", "g">>), Some(<<"i", "m", "a", "g", "e", "/", "p", "n", "g">>), Some(<<"h", "/", "u">>), Some(<<"!", "!">>)),
       ImageUploadRequest(Some(<<"c", ".", "p", "n", "g">>), Some(<<"i", "m", "a", "g", "e", "/", "p", "n", "g">>), Some(<<"h", "/", "u">>), Some(<<"p", "Q", "=", "=">>)) >>

\* two items of one name whose payloads are two chunks long: ChunkA twice,
\* then ChunkB twice
SameNameLong ==
    << ImageUploadRequest(Some(<<"a", ".", "p", "n", "g">>), Some(<<"i", "m", "a", "g", "e", "/", "p", "n", "g">>), None, Some(<<"p", "a", "U", "=">>)),
       ImageUploadRequest(Some(<<"a", ".", "p", "n", "g">>), Some(<<"i", "m", "a", "g", "e", "/", "p", "n", "g">>), None, Some(<<"W", "l", "o", "=">>)) >>

RequestsL ==
    {Handler("json", TRUE, b) : b \in {<<EmptyType>>, AfterSubdir, OverThumbnail,
                                       UrlAndData, SameNameLong}}
    \cup {Handler("multipart", TRUE, OneField)}

InitL ==
    /\ files = NoFiles
    /\ faulty \in BOOLEAN
    /\ locks = {}
    /\ hd \in [{"h1"} -> RequestsL]
    /\ dirs = RootDirs(hd["h1"].items)
    /\ wr = [h \in {"h1"} |-> NoCall]
    /\ tasks = <<>>
    /\ clock = 0
    /\ call = NoDirectCall

SpecL == InitL /\ [][NextT]_vars

(***************************************************************************)
(* Properties of the direct calls (SpecFS)                                 *)
(***************************************************************************)
\* the contents a reader may take for whole: the payload of a write call on
\* the path, or what the path held before any call
WholeContents(p) ==
    {wr[t].source : t \in {u \in DOMAIN wr : wr[u].target = p}} \cup {PriorContent}

\* C1: when the two concurrent write_image_data calls on one path have both
\* returned Ok, the file holds exactly the payload of one of them, and each
\* call returned the length of its own payload
C1_ConcurrentWritesLeaveOnePayload ==
    (\A t \in Writers : wr[t].pc = "returned" /\ wr[t].res.ok)
    => /\ files[TestPath] \in {wr[t].source : t \in Writers}
       /\ \A t \in Writers : wr[t].res.n = Len(wr[t].source)

\* both calls returned Ok, the longer payload A was written first and the
\* shorter payload B last: no tail of A is left
C1_Witness ==
    /\ \A t \in Writers : wr[t].pc = "returned" /\ wr[t].res.ok
    /\ Len(wr["w1"].source) = 2
    /\ files[TestPath] = PayloadB

\* C2: whenever thumbnail::make holds the shared lock on a path and reads the
\* file, the file holds the whole payload of some write_image_data call on
\* that path, or the content from before any write
C2_ReaderSeesWholePayload ==
    \A k \in DOMAIN tasks :
        (tasks[k].pc = "decode" /\ tasks[k].locked)
        => files[tasks[k].path] \in WholeContents(tasks[k].path)

\* the steps of a writer between lock_exclusive and unlock, and of a reader
\* between lock_shared and unlock
Writing(t) == wr[t].pc \in {"set_len", "copy", "unlock"}
Reading(k) == tasks[k].pc \in {"decode", "unlock"}

\* C3: on one path a reader that holds the shared lock and decodes never
\* overlaps a writer that truncates and copies, and at most one writer is
\* past its exclusive lock at a time
C3_ReaderAndWriterNeverOverlap ==
    /\ \A t \in DOMAIN wr, k \in DOMAIN tasks :
           ~(Writing(t) /\ Reading(k) /\ wr[t].target = tasks[k].path)
    /\ \A t, u \in DOMAIN wr :
           (Writing(t) /\ Writing(u) /\ wr[t].target = wr[u].target) => t = u

\* two readers hold the shared lock together while a writer waits for it
C3_Witness ==
    /\ \A k \in DOMAIN tasks : tasks[k].pc = "decode" /\ tasks[k].buf # <<>>
    /\ \E t \in DOMAIN wr : wr[t].pc = "lock_exclusive"

\* C4 as claimed: every call that returns after it acquired the exclusive
\* lock has executed the unlock step and no longer holds the lock
C4_UnlockStepOnEveryPath ==
    \A t \in DOMAIN wr :
        (wr[t].pc = "returned" /\ wr[t].locked)
        => wr[t].unlocked /\ HeldBy(WHandle(t)) = {}

\* C4 as amended: every call that returns after it acquired the exclusive
\* lock no longer holds the lock; it has executed the unlock step unless the
\* truncation failed, and then the dropped file handle released the lock
C4_LockReleasedOnEveryPath ==
    \A t \in DOMAIN wr :
        (wr[t].pc = "returned" /\ wr[t].locked)
        => /\ HeldBy(WHandle(t)) = {}
           /\ wr[t].unlocked <=> wr[t].res.err # "set_len"

\* a call returned after its truncation failed under the lock, and another
\* after its copy failed
C4_Witness ==
    /\ wr["w1"].pc = "returned" /\ wr["w1"].locked /\ wr["w1"].res.err = "set_len"
    /\ wr["w2"].pc = "returned" /\ wr["w2"].locked /\ wr["w2"].res.err = "copy"

\* no other write call has started
Alone(t) == \A u \in DOMAIN wr \ {t} : wr[u].pc = "open"

\* C5: a write_image_data call that created its target, with no other writer
\* on the path, returns Ok only with the length of its source, and the file
\* then reads back as exactly the source
C5_RoundTripOnFreshPath ==
    \A t \in DOMAIN wr :
        (wr[t].pc = "returned" /\ wr[t].created /\ Alone(t) /\ wr[t].res.ok)
        => /\ wr[t].res = Ok(Len(wr[t].source))
           /\ files[wr[t].target] = wr[t].source
           /\ \A k \in DOMAIN tasks :
                  (tasks[k].pc = "unlock" /\ tasks[k].eof)
                  => tasks[k].buf = wr[t].source

\* the call wrote a payload of two different chunks to a fresh path and a
\* reader read it back
C5_Witness ==
    /\ wr["w1"].pc = "returned" /\ wr["w1"].created /\ Alone("w1")
    /\ wr["w1"].res = Ok(2)
    /\ wr["w1"].source = <<ChunkA, ChunkB>>
    /\ \E k \in DOMAIN tasks : tasks[k].pc = "unlock" /\ tasks[k].eof

(***************************************************************************)
(* Properties of one request (Spec)                                        *)
(***************************************************************************)
Responded(h) == hd[h].pc = "responded" /\ hd[h].status = 200

\* the JSON items of Spec and SpecT
AllJsonItems ==
    JsonItems \cup {UnnamedImage, SameName[1], SameName[2], IntoThumbnails[2],
                     OverThumbnail[2], EmptyType, UrlAndData[1],
                     SameNameLong[1], SameNameLong[2]}

\* the extractors, tabulated over the items, responses and instants of Spec
JsonExtraction ==
    [item \in AllJsonItems, resp \in Responses, now \in 0..MaxClock |->
        extract_json(item, resp, now)]

FieldExtraction ==
    [field \in MultipartFields \cup {OneField[1]}, now \in 0..MaxClock |->
        image_from_multipart_field(field, now)]

\* the extractor of item i of request h, on what it saw
extracted(h, i) ==
    IF hd[h].kind = "json"
    THEN JsonExtraction[hd[h].items[i], hd[h].env[i].resp, hd[h].env[i].now]
    ELSE FieldExtraction[hd[h].items[i], hd[h].env[i].now]

\* outcome o tells what became of item i: its normalized name and payload
\* length when it was written, the extractor's reason when extraction failed
Describes(h, i, o) ==
    LET r == extracted(h, i) IN
    IF o.success THEN r.ok /\ o.filename = r.filename /\ o.size = Len(r.data)
    ELSE IF r.ok THEN o.reason = "I/O error" /\ o.filename = r.filename
    ELSE o.reason = r.err

\* C6: the response to a parseable batch of n items lists exactly n outcomes
\* and outcome i describes item i, whatever mix of successes, extractor
\* failures and write failures occurred
C6_OneOutcomePerItemInOrder ==
    \A h \in DOMAIN hd :
        Responded(h)
        => /\ Len(hd[h].results) = Len(hd[h].items)
           /\ \A i \in 1..Len(hd[h].results) : Describes(h, i, hd[h].results[i])

\* a batch answered with an extractor failure first and a success second
C6_Witness ==
    \E h \in DOMAIN hd :
        /\ Responded(h) /\ Len(hd[h].items) >= 2
        /\ ~hd[h].results[1].success /\ ~extracted(h, 1).ok
        /\ hd[h].results[2].success

\* C7: every pushed outcome with success = true has the size write_image_data
\* returned and reason "ok"; every one with success = false has size 0 and a
\* reason other than "ok"
C7_OutcomeInvariant ==
    \A h \in DOMAIN hd : \A i \in 1..Len(hd[h].results) :
        LET o == hd[h].results[i]
            e == hd[h].env[i]
        IN  /\ o.success => (e.wres.ok /\ o.size = e.wres.n /\ o.reason = "ok")
            /\ ~o.success => (o.size = 0 /\ o.reason # "ok")

\* one outcome of a two-chunk success and one of a failed write
C7_Witness ==
    \E h \in DOMAIN hd : \E i, j \in 1..Len(hd[h].results) :
        /\ hd[h].results[i].success /\ hd[h].results[i].size = 2
        /\ ~hd[h].results[j].success /\ hd[h].results[j].reason = "I/O error"

\* C8: a thumbnail task is spawned for an item if and only if
\* write_image_data for that item returned Ok
C8_ThumbnailOnlyAfterOkWrite ==
    \A h \in DOMAIN hd : \A i \in 1..Len(hd[h].results) :
        (\E k \in DOMAIN tasks : tasks[k].by = <<h, i>>) <=> hd[h].env[i].wres.ok

\* the outcome and the write target of item j computed from item j alone
Solo(h, j) ==
    LET r == extracted(h, j) IN
    /\ hd[h].results[j] =
           IF r.ok THEN written(r, hd[h].env[j].wres)
           ELSE IF hd[h].kind = "json" THEN json_failure(r)
           ELSE multipart_failure(r)
    /\ hd[h].env[j].target = IF r.ok THEN Some(r.filename) ELSE None

C10_ExtractorFailureTouchesNothing ==
    \A h \in DOMAIN hd : \A i \in 1..Len(hd[h].env) :
        \/ /\ hd[h].env[i].target = None
           /\ \A k \in DOMAIN tasks : tasks[k].by # <<h, i>>
           /\ hd[h].env[i].after = hd[h].env[i].before
        \/ extracted(h, i).ok

\* an item with neither data nor url failed after an earlier item was written
C10_Witness ==
    \E h \in DOMAIN hd :
        /\ Len(hd[h].results) >= 2
        /\ hd[h].results[1].success
        /\ hd[h].kind = "json" /\ selected(hd[h].items[2]) = "none"
        /\ hd[h].env[2].before # NoFiles

\* what item i of request h declared: its filename and its content type
\* (a multipart content type is compared in lower case)
DeclaredFilename(h, i) == unwrap_or(hd[h].items[i].filename, <<>>)
DeclaredContentType(h, i) ==
    IF hd[h].kind = "json" THEN unwrap_or(hd[h].items[i].content_type, <<>>)
    ELSE to_lowercase(unwrap_or(hd[h].items[i].content_type, <<>>))

\* C11: the outcome of an item whose extractor failed carries the filename
\* and the content type the item declared (a multipart field only when it
\* declares a filename)
C11_FailureCarriesDeclared ==
    \A h \in DOMAIN hd : \A i \in 1..Len(hd[h].results) :
        ~extracted(h, i).ok
        => /\ hd[h].results[i].content_type = DeclaredContentType(h, i)
           /\ (hd[h].kind = "json" \/ is_some(hd[h].items[i].filename))
              => hd[h].results[i].filename = DeclaredFilename(h, i)

\* C12: when write_image_data returns an error for an extracted item, the
\* item's outcome is success = false, size = 0, reason "I/O error" with the
\* normalized filename and the resolved content type, and the handler still
\* answers with one outcome per item
C12_WriteErrorOutcome ==
    \A h \in DOMAIN hd :
        /\ \A i \in 1..Len(hd[h].results) :
               (extracted(h, i).ok /\ ~hd[h].env[i].wres.ok)
               => hd[h].results[i] =
                      ImageUploadResult(extracted(h, i).filename,
                                        extracted(h, i).content_type,
                                        0, FALSE, "I/O error")
        /\ (hd[h].parseable /\ hd[h].pc = "responded")
           => (hd[h].status = 200 /\ Len(hd[h].results) = Len(hd[h].items))

\* an answered batch with an unnamed item whose truncation failed and an
\* item whose copy failed
C12_Witness ==
    \E h \in DOMAIN hd : \E i, j \in 1..Len(hd[h].results) :
        /\ Responded(h)
        /\ hd[h].env[i].wres.err = "set_len"
        /\ ~is_some(hd[h].items[i].filename)
        /\ hd[h].env[j].wres.err = "copy"

\* C13: a JSON request whose body does not parse is answered 400 as a whole:
\* no outcome, no extractor run, no write_image_data call, no file and no
\* thumbnail task
C13_MalformedJsonIsRejectedWhole ==
    \A h \in DOMAIN hd :
        (hd[h].kind = "json" /\ ~hd[h].parseable)
        => /\ hd[h].pc \in {"parse", "responded"}
           /\ hd[h].pc = "responded" => hd[h].status = 400
           /\ hd[h].results = <<>> /\ hd[h].env = <<>>
           /\ wr[h] = NoCall
           /\ files = NoFiles /\ dirs = {} /\ tasks = <<>>

\* a malformed JSON body with two elements was answered
C13_Witness ==
    \E h \in DOMAIN hd :
        /\ hd[h].kind = "json" /\ ~hd[h].parseable
        /\ Len(hd[h].items) = 2 /\ selected(hd[h].items[1]) = "base64"
        /\ hd[h].pc = "responded" /\ hd[h].status = 400

\* the base64 and the URL extractor, tabulated over the items of Spec
Base64Extraction ==
    [item \in AllJsonItems, now \in 0..MaxClock |-> image_from_base64_data(item, now)]

UrlExtraction ==
    [item \in AllJsonItems, resp \in Responses, now \in 0..MaxClock |->
        image_from_url(item, resp, now)]

\* the outcome of a JSON item whose extractor returned r and whose write, if
\* any, returned res
JsonOutcome(r, res) == IF r.ok THEN written(r, res) ELSE json_failure(r)

\* C14: a JSON item with data is handled by the base64 extractor, one with
\* url and no data by the URL extractor, one with neither fails with "nor url
\* or data are specified"; so [unreachable url, valid data, {}] yields the
\* successes [false, true, false]
C14_JsonDispatch ==
    \A h \in DOMAIN hd :
        hd[h].kind = "json"
        => /\ \A i \in 1..Len(hd[h].results) :
                  LET item == hd[h].items[i]
                      e == hd[h].env[i]
                      o == hd[h].results[i]
                  IN  IF is_some(item.data)
                      THEN o = JsonOutcome(Base64Extraction[item, e.now], e.wres)
                      ELSE IF is_some(item.url)
                      THEN o = JsonOutcome(UrlExtraction[item, e.resp, e.now], e.wres)
                      ELSE /\ ~o.success /\ o.size = 0
                           /\ o.reason = "nor url or data are specified"
                           /\ e.target = None
           /\ ( /\ hd[h].items = Scenario1 /\ Responded(h)
                /\ ~hd[h].env[1].resp.sent /\ hd[h].env[2].wres.ok )
              => /\ [i \in 1..3 |-> hd[h].results[i].success] = <<FALSE, TRUE, FALSE>>
                 /\ hd[h].results[3].reason = "nor url or data are specified"

\* the test batch was answered after the url was unreachable and the data
\* was written
C14_Witness ==
    \E h \in DOMAIN hd :
        /\ hd[h].items = Scenario1 /\ Responded(h)
        /\ ~hd[h].env[1].resp.sent /\ hd[h].env[2].wres.ok
        /\ hd[h].results[2].size = 1

\* the content type of a field is an image type
IsImageField(field) ==
    /\ is_some(field.content_type)
    /\ StartsWith(to_lowercase(field.content_type[1]), <<"i", "m", "a", "g", "e", "/">>)

\* C15: a multipart field with an image/ content type is extracted and
\* written under the name normalized from its filename, or from its field
\* name when it declares none (image/PNG named n gives n.png); every other
\* field fails with "no image data" and is not written
C15_MultipartExtraction ==
    \A h \in DOMAIN hd :
        hd[h].kind = "multipart"
        => /\ \A i \in 1..Len(hd[h].results) :
                  LET field == hd[h].items[i]
                      e == hd[h].env[i]
                      o == hd[h].results[i]
                  IN  IF IsImageField(field)
                      THEN /\ e.target = Some(o.filename)
                           /\ o.success <=> e.wres.ok
                           /\ o.content_type = to_lowercase(field.content_type[1])
                           /\ field.filename = Some(<<"s", ".", "j", "p", "g">>)
                              => o.filename = <<"s", ".", "j", "p", "g">>
                           /\ (field.filename = None /\ field.name = <<"n">>)
                              => o.filename = <<"n", ".", "p", "n", "g">>
                      ELSE /\ ~o.success /\ o.reason = "no image data"
                           /\ e.target = None
           /\ ( /\ hd[h].items = Scenario2 /\ Responded(h)
                /\ hd[h].env[1].wres.ok /\ hd[h].env[2].wres.ok )
              => /\ [i \in 1..3 |-> hd[h].results[i].success] = <<TRUE, TRUE, FALSE>>
                 /\ DOMAIN files = {<<"s", ".", "j", "p", "g">>, <<"n", ".", "p", "n", "g">>}

\* the test body was answered with both images written
C15_Witness ==
    \E h \in DOMAIN hd :
        /\ hd[h].items = Scenario2 /\ Responded(h)
        /\ hd[h].results[1].success /\ hd[h].results[2].success
        /\ hd[h].results[2].filename = <<"n", ".", "p", "n", "g">>
        /\ hd[h].results[3].reason = "no image data"

(***************************************************************************)
(* Properties of thumbnail::make                                           *)
(***************************************************************************)
\* the paths of the thumbnails directories, and the files in them
IsThumbnail(p) == Parent(p) \in {ThumbDir(tasks[k].path) : k \in DOMAIN tasks}
Thumbnails(fs) == [p \in {q \in DOMAIN fs : IsThumbnail(q)} |-> fs[p]]

\* call k has the image: it opened and locked the file and decoded it
HasImage(k) ==
    tasks[k].pc \in {"create_dir_all", "save"} /\ tasks[k].locked /\ tasks[k].decoded

\* C17: a make call that could not open, lock or decode its file creates no
\* thumbnails directory and no thumbnail, and returns: only a call that has
\* the decoded image ever creates a directory or a file (every step that
\* changes one and is not a step of write_image_data is a step of such a
\* call), and a call without the image is never at create_dir_all or save
C17_NoThumbnailWithoutImage ==
    [][ /\ (dirs' # dirs \/ (files' # files /\ wr' = wr))
           => \E k \in DOMAIN tasks : HasImage(k) /\ tasks'[k] # tasks[k]
        /\ \A k \in DOMAIN tasks :
              (tasks'[k].pc \in {"create_dir_all", "save"}) => tasks'[k].decoded
      ]_vars

\* image::open has failed in one call on the whole file a writer left, the
\* other call is over, and there is neither directory nor thumbnail
C17_Witness ==
    /\ \A t \in DOMAIN wr : wr[t].pc = "returned"
    /\ \E k \in DOMAIN tasks :
           /\ tasks[k].pc = "unlock" /\ tasks[k].eof /\ ~tasks[k].decoded
           /\ tasks[k].buf = files[TestPath] /\ tasks[k].buf # <<>>
           /\ \A j \in DOMAIN tasks \ {k} : tasks[j].pc = "done"
    /\ dirs = {} /\ Thumbnails(files) = NoFiles

\* C20: make holds its shared lock only while it decodes: the lock is gone
\* on every path once the unlock step is over, after a decode success as
\* after a decode failure, also when unlock itself failed, and so before the
\* resize, the creation of the thumbnails directory and the save
C20_SharedLockOnlyWhileDecoding ==
    \A k \in DOMAIN tasks :
        /\ tasks[k].pc \in {"open", "lock_shared", "create_dir_all", "save", "done"}
           => HeldBy(THandle(k)) = {}
        /\ tasks[k].pc \in {"create_dir_all", "save"} => tasks[k].locked

\* a call is about to save its thumbnail, having held the lock, and a writer
\* holds the exclusive lock on the same file meanwhile
C20_Witness ==
    \E k \in DOMAIN tasks : \E t \in DOMAIN wr :
        /\ tasks[k].pc = "save" /\ tasks[k].locked /\ tasks[k].decoded
        /\ HeldBy(THandle(k)) = {}
        /\ HeldBy(WHandle(t)) # {} /\ wr[t].target = tasks[k].path

(***************************************************************************)
(* Properties of a request and its thumbnail threads (SpecT)               *)
(***************************************************************************)
\* item i of request h held an image and was written, in a run without I/O
\* failure
WrittenImage(h, i) ==
    /\ ~faulty
    /\ i \in 1..Len(hd[h].results)
    /\ hd[h].results[i].success
    /\ IsImage(extracted(h, i).data)

\* the thumbnail of item i of request h exists
ThumbnailExists(h, i) ==
    /\ i \in 1..Len(hd[h].env)
    /\ is_some(hd[h].env[i].target)
    /\ Exists(ThumbPath(hd[h].env[i].target[1]))

ImageName(h, i) ==
    /\ i \in 1..Len(hd[h].env)
    /\ is_some(hd[h].env[i].target)
    /\ Extension(hd[h].env[i].target[1]) \in ImageExtensions

\* another item of the request put something that is not an image at the
\* path of item i
Replaced(h, i) ==
    \E j \in 1..Len(hd[h].env) :
        /\ j # i /\ i \in 1..Len(hd[h].env)
        /\ hd[h].env[j].target = hd[h].env[i].target
        /\ extracted(h, j).ok /\ ~IsImage(extracted(h, j).data)

Outcome(h, r, res) ==
    IF r.ok THEN written(r, res)
    ELSE IF hd[h].kind = "json" THEN json_failure(r) ELSE multipart_failure(r)

\* the outcome of item i of request h in the run without I/O failure in which
\* no thumbnail task is scheduled before the response: the upload root has the
\* directories it started with, and the file is created when its directory is
\* one of them
UnscheduledOutcome(h, i) ==
    Outcome(h, extracted(h, i),
            IF \/ hd[h].env[i].target = None
               \/ Parent(hd[h].env[i].target[1]) \in {<<>>} \cup RootDirs(hd[h].items)
            THEN Ok(Len(extracted(h, i).data)) ELSE Err("open"))

\* C18: the outcome list does not depend on what the thumbnail tasks do: in
\* a run without I/O failure every outcome is the one of the run in which no
\* thumbnail task is scheduled, and a task that returned never runs again
C18_OutcomesIndependentOfThumbnails ==
    /\ \A h \in DOMAIN hd :
           ~faulty => \A i \in 1..Len(hd[h].results) :
                          hd[h].results[i] = UnscheduledOutcome(h, i)
    /\ \A k \in DOMAIN tasks : tasks[k].pc = "done" => tasks[k] = Returned(k)

\* the request thread of h can take a step: a step of the handler or of the
\* write_image_data call it is in
CanStep(h) ==
    ENABLED (handle_json_images_post(h) \/ handle_multipart_images_post(h)
             \/ write_image_data(h))

\* the write call of h waits in lock_exclusive for a thumbnail task that
\* holds its shared lock on the target
WaitsForReader(h) ==
    /\ wr[h].pc = "lock_exclusive"
    /\ \E k \in DOMAIN tasks :
           [path |-> wr[h].target, holder |-> THandle(k), mode |-> "shared"] \in locks

\* the thumbnail tasks spawned for the items of request h
SpawnedBy(h) == {k \in DOMAIN tasks : tasks[k].by[1] = h}

\* C19 as stated: the handler never blocks on a thumbnail task, that is, until
\* it has responded its thread can always take a step
C19_HandlerNeverBlocks ==
    \A h \in DOMAIN hd : hd[h].pc # "responded" => CanStep(h)

\* C19: the handler responds without waiting for the thumbnail tasks to start
\* or finish; until it has responded its thread can always take a step,
\* except while its write waits for the exclusive lock on a file that a
\* thumbnail task holds locked shared
C19_RespondsWithoutJoin ==
    \A h \in DOMAIN hd :
        hd[h].pc # "responded" => (CanStep(h) \/ WaitsForReader(h))

\* a response returned while one task of the request has not started and
\* another is in the middle of its run
C19_Witness ==
    \E h \in DOMAIN hd :
        /\ Responded(h)
        /\ \E k \in SpawnedBy(h) : tasks[k].pc = "open"
        /\ \E k \in SpawnedBy(h) : tasks[k].pc \in {"decode", "unlock", "create_dir_all", "save"}

(***************************************************************************)
(* Persisted layout                                                        *)
(***************************************************************************)
\* the path, relative to the upload root, of item i's write
TargetOf(h, i) == hd[h].env[i].target[1]

\* C21: every item whose write succeeds was written to exactly
\* {uploadRoot}/{its normalized filename}, whatever the earlier items of the
\* batch were named, and the thumbnail path of its task is
\* {uploadRoot}/thumbnails/{same filename}
C21_WrittenUnderRoot ==
    \A h \in DOMAIN hd : \A i \in 1..Len(hd[h].results) :
        hd[h].results[i].success
        => /\ TargetOf(h, i) = Join(<<>>, hd[h].results[i].filename)
           /\ \A k \in DOMAIN tasks :
                  tasks[k].by = <<h, i>>
                  => ThumbPath(tasks[k].path)
                     = Join(<<"t", "h", "u", "m", "b", "n", "a", "i", "l", "s">>, hd[h].results[i].filename)

\* the last item of request h whose write to the path of item i succeeded
LastWriteTo(h, i) ==
    CHOOSE j \in 1..Len(hd[h].results) :
        /\ hd[h].results[j].success /\ hd[h].env[j].target = hd[h].env[i].target
        /\ \A l \in 1..Len(hd[h].results) :
               (hd[h].results[l].success /\ hd[h].env[l].target = hd[h].env[i].target)
               => l <= j

\* after the response of a run without I/O failure, every path an item was
\* written to holds the data of the last write to it
KeepsLastWrite ==
    \A h \in DOMAIN hd :
        (Responded(h) /\ ~faulty)
        => \A i \in 1..Len(hd[h].results) :
               hd[h].results[i].success
               => /\ Exists(TargetOf(h, i))
                  /\ files[TargetOf(h, i)] = extracted(h, LastWriteTo(h, i)).data

\* C22: thumbnail::make leaves the file it reads as it is, no step deletes a
\* file, and every file that was written still exists with the content of
\* the last write to its path
C22_WrittenFilesStay ==
    /\ [][ /\ DOMAIN files \subseteq DOMAIN files'
           /\ \A k \in DOMAIN tasks :
                  (tasks'[k] # tasks[k] /\ Exists(tasks[k].path))
                  => files'[tasks[k].path] = files[tasks[k].path] ]_vars
    /\ []KeepsLastWrite

(***************************************************************************)
(* Direct calls of file_utils::normalize_image_filename and its ext_for    *)
(* (file_utils.rs test_normalize_image_filename): one call of ext_for, or  *)
(* two calls of normalize_image_filename one after the other with the      *)
(* same arguments.                                                         *)
(***************************************************************************)
\* the MIME types of the unit test, the prefix in other cases, and types that
\* are not of the form image/<subtype>
ContentTypes ==
    { <<"i", "m", "a", "g", "e", "/", "j", "p", "e", "g">>,
      <<"i", "m", "a", "g", "e", "/", "p", "j", "p", "e", "g">>,
      <<"i", "m", "a", "g", "e", "/", "s", "v", "g", "+", "x", "m", "l">>,
      <<"i", "m", "a", "g", "e", "/", "t", "i", "f", "f">>,
      <<"i", "m", "a", "g", "e", "/", "v", "n", "d", ".", "m", "i", "c", "r", "o", "s", "o", "f", "t", ".", "i", "c", "o", "n">>,
      <<"i", "m", "a", "g", "e", "/", "v", "n", "d", ".", "w", "a", "p", ".", "w", "b", "m", "p">>,
      <<"i", "m", "a", "g", "e", "/", "*">>,
      <<"i", "m", "a", "g", "e", "/", "p", "n", "g">>,
      <<"i", "m", "a", "g", "e", "/", "~", "u", "n", "k", "n", "o", "w", "n", "~">>,
      <<"I", "M", "A", "G", "E", "/", "J", "P", "E", "G">>,
      <<"I", "m", "a", "g", "e", "/", "P", "n", "g">>,
      <<"i", "m", "a", "g", "e", "/">>,
      <<"i", "m", "a", "g", "e", "/", "a", "/", "b">>,
      <<"t", "e", "x", "t", "/", "p", "l", "a", "i", "n">>,
      <<>>,
      <<"i", "m", "a", "g", "e">>,
      <<"a", "p", "p", "l", "i", "c", "a", "t", "i", "o", "n", "/", "o", "c", "t", "e", "t", "-", "s", "t", "r", "e", "a", "m">>,
      <<"/", "p", "n", "g">> }

\* file names: empty, blank, without and with a '.'
Names ==
    { <<>>,
      <<" ">>,
      <<"\t", " ">>,
      <<"a">>,
      <<"p", "l", "a", "c", "e", "h", "o", "l", "d", "e", "r">>,
      <<"v", "a", "l", "i", "d", ".", "p", "n", "g">>,
      <<"a", ".">>,
      <<".", "b">>,
      <<" ", "a">> }

\* ret: what the calls made so far returned, in call order
DirectCall(fn, filename, content_type) ==
    [fn |-> fn, filename |-> filename, content_type |-> content_type, ret |-> <<>>]

\* file_utils.rs:41-57 called once
CallExtFor ==
    /\ call.fn = "ext_for"
    /\ call.ret = <<>>
    /\ call' = [call EXCEPT !.ret = <<ext_for(call.content_type)>>]
    /\ UNCHANGED <<files, dirs, faulty, locks, wr, tasks, hd, clock>>

\* file_utils.rs:35-78 called, and called again; Utc::now() is read at line 62
CallNormalize ==
    /\ call.fn = "normalize_image_filename"
    /\ Len(call.ret) < 2
    /\ \E now \in NowChoices(call.filename) :
          /\ call' = [call EXCEPT !.ret =
                         Append(@, normalize_image_filename(call.filename,
                                                            call.content_type, now))]
          /\ clock' = now
    /\ UNCHANGED <<files, dirs, faulty, locks, wr, tasks, hd>>

InitN ==
    /\ files = NoFiles
    /\ dirs = {}
    /\ faulty = FALSE
    /\ locks = {}
    /\ wr = <<>>
    /\ tasks = <<>>
    /\ hd = <<>>
    /\ clock \in 0..MaxClock
    /\ call \in {DirectCall("ext_for", <<>>, ct) : ct \in ContentTypes}
               \cup {DirectCall("normalize_image_filename", n, ct) :
                        n \in Names, ct \in ContentTypes}

NextN == CallExtFor \/ CallNormalize

SpecN == InitN /\ [][NextN]_vars

\* the documented remaps of the subtype
DocumentedRemap ==
    { <<<<"j", "p", "e", "g">>, <<"j", "p", "g">>>>,
      <<<<"p", "j", "p", "e", "g">>, <<"j", "p", "g">>>>,
      <<<<"s", "v", "g", "+", "x", "m", "l">>, <<"s", "v", "g">>>>,
      <<<<"t", "i", "f", "f">>, <<"t", "i", "f">>>>,
      <<<<"v", "n", "d", ".", "m", "i", "c", "r", "o", "s", "o", "f", "t", ".", "i", "c", "o", "n">>, <<"i", "c", "o">>>>,
      <<<<"v", "n", "d", ".", "w", "a", "p", ".", "w", "b", "m", "p">>, <<"w", "b", "m", "p">>>>,
      <<<<"*">>, <<"b", "i", "n">>>> }

\* the extension the documentation gives a content type: the remap of the
\* subtype, or the subtype itself, of a type image/<subtype> with one slash
\* and a subtype; bin for everything else
DocumentedExtension(ct) ==
    IF /\ StartsWith(to_lowercase(ct), <<"i", "m", "a", "g", "e", "/">>)
       /\ CountOf(ct, "/") = 1
       /\ Len(ct) > 6
    THEN LET sub == SubSeq(ct, 7, Len(ct))
         IN  IF \E m \in DocumentedRemap : m[1] = sub
             THEN (CHOOSE m \in DocumentedRemap : m[1] = sub)[2]
             ELSE sub
    ELSE <<"b", "i", "n">>

\* C23: ext_for returns the documented extension for every content type:
\* the remap or the subtype itself for image/<subtype>, and bin for every
\* other string, an empty subtype included
C23_ExtensionMapping ==
    (call.fn = "ext_for" /\ call.ret # <<>>)
    => call.ret[1] = DocumentedExtension(call.content_type)

\* C24: for a filename that is not blank, normalize_image_filename returns
\* filename + "." + the extension for the content type when the filename has
\* no '.', and the filename itself, whatever the content type, when it has one
C24_NormalizeNamed ==
    (call.fn = "normalize_image_filename" /\ ~IsBlank(call.filename))
    => \A i \in 1..Len(call.ret) :
           call.ret[i] = IF Contains(call.filename, ".") THEN call.filename
                         ELSE call.filename \o <<".">> \o ext_for(call.content_type)

\* both calls returned for a name with a '.' and a type that maps to jpg
C24_Witness ==
    /\ call.fn = "normalize_image_filename"
    /\ call.filename = <<"v", "a", "l", "i", "d", ".", "p", "n", "g">> /\ call.content_type = <<"i", "m", "a", "g", "e", "/", "j", "p", "e", "g">>
    /\ call.ret = <<<<"v", "a", "l", "i", "d", ".", "p", "n", "g">>, <<"v", "a", "l", "i", "d", ".", "p", "n", "g">>>>

\* name is untitled@<18 digits>.<the extension for content type ct>
IsGenerated(name, ct) ==
    /\ Len(name) = 28 + Len(ext_for(ct))
    /\ SubSeq(name, 1, 9) = <<"u", "n", "t", "i", "t", "l", "e", "d", "@">>
    /\ \A i \in 10..27 : \E d \in 1..10 : Digits[d] = name[i]
    /\ name[28] = "."
    /\ SubSeq(name, 29, Len(name)) = ext_for(ct)

\* C25: for a blank filename normalize_image_filename returns
\* untitled@<18-digit timestamp>.<extension>, and two calls with the same
\* content type return different names
C25_UnnamedGetsFreshName ==
    (call.fn = "normalize_image_filename" /\ IsBlank(call.filename))
    => /\ \A i \in 1..Len(call.ret) : IsGenerated(call.ret[i], call.content_type)
       /\ Len(call.ret) = 2 => call.ret[1] # call.ret[2]

\* the part of name after its last '.'
AfterLastDot(name) == SubSeq(name, LastIndexOf(name, ".") + 1, Len(name))

\* C26: whatever the filename and the content type, the name returned by
\* normalize_image_filename is not empty and has a '.', and when the filename
\* given had no '.' a non-empty extension follows the last '.'
C26_NormalizedHasExtension ==
    call.fn = "normalize_image_filename"
    => \A i \in 1..Len(call.ret) :
           /\ call.ret[i] # <<>>
           /\ Contains(call.ret[i], ".")
           /\ ~Contains(call.filename, ".") => AfterLastDot(call.ret[i]) # <<>>

(***************************************************************************)
(* The extractors' content type                                            *)
(***************************************************************************)
\* C27: when the base64 extractor or the multipart extractor succeeds, the
\* content type it returns and the content type of the item's outcome are
\* not empty, and a JSON data item that declares no content type gets
\* application/octet-stream
C27_ContentTypeNeverEmpty ==
    \A h \in DOMAIN hd : \A i \in 1..Len(hd[h].env) :
        (/\ extracted(h, i).ok
         /\ hd[h].kind = "json" => selected(hd[h].items[i]) = "base64")
        => /\ extracted(h, i).content_type # <<>>
           /\ i <= Len(hd[h].results) => hd[h].results[i].content_type # <<>>
           /\ (hd[h].kind = "json" /\ hd[h].items[i].content_type = None)
              => extracted(h, i).content_type = <<"a", "p", "p", "l", "i", "c", "a", "t", "i", "o", "n", "/", "o", "c", "t", "e", "t", "-", "s", "t", "r", "e", "a", "m">>

\* the content type the URL extractor resolves: the response's Content-Type
\* header, the declared type of the item when the header is absent
ResolvedType(item, resp) ==
    IF is_some(resp.content_type) THEN resp.content_type[1]
    ELSE unwrap_or(item.content_type, <<>>)

\* the Content-Length of the response, -1 when absent or not a number
ResponseLength(resp) ==
    IF is_some(resp.content_length) THEN parse_usize(resp.content_length[1]) ELSE -1

\* C28: after a successful GET the URL extractor resolves the content type
\* from the response header, else from the item; a type that is not an
\* image/ type fails with "not an image" whatever the length is; else an
\* absent or non-numeric Content-Length fails with "invalid content length
\* in response"; else exactly Content-Length bytes are returned, or the body
\* is short and the item fails
C28_UrlExtraction ==
    \A h \in DOMAIN hd : \A i \in 1..Len(hd[h].env) :
        LET item == hd[h].items[i]
            resp == hd[h].env[i].resp
            r == extracted(h, i)
        IN  (hd[h].kind = "json" /\ selected(item) = "url" /\ resp.sent)
            => IF ~StartsWith(ResolvedType(item, resp), <<"i", "m", "a", "g", "e", "/">>)
               THEN ~r.ok /\ r.err = "not an image"
               ELSE IF ResponseLength(resp) < 0
               THEN ~r.ok /\ r.err = "invalid content length in response"
               ELSE IF Len(resp.body) < ResponseLength(resp)
               THEN ~r.ok
               ELSE /\ r.ok
                    /\ r.content_type = ResolvedType(item, resp)
                    /\ r.data = SubSeq(resp.body, 1, ResponseLength(resp))
                    /\ Len(r.data) = ResponseLength(resp)

\* a response that is not an image and has no Content-Length was answered
\* "not an image"
C28_Witness ==
    \E h \in DOMAIN hd : \E i \in 1..Len(hd[h].results) :
        /\ hd[h].kind = "json" /\ selected(hd[h].items[i]) = "url"
        /\ hd[h].env[i].resp.sent
        /\ hd[h].env[i].resp.content_type = Some(<<"t", "e", "x", "t", "/", "h", "t", "m", "l">>)
        /\ hd[h].env[i].resp.content_length = None
        /\ hd[h].results[i].reason = "not an image"

(***************************************************************************)
(* http_handlers::route_images_post_by_content_type: one POST /images,     *)
(* from its Content-Type header to the response of the handler it is       *)
(* routed to.                                                              *)
(***************************************************************************)
\* s.split(c)[0]
Before(s, c) == IF IndexOf(s, c) = 0 THEN s ELSE SubSeq(s, 1, IndexOf(s, c) - 1)

\* a routing that compares the header as it was sent
route_case_sensitive(header) ==
    IF is_some(header)
    THEN CASE Before(header[1], ";") = <<"a", "p", "p", "l", "i", "c", "a", "t", "i", "o", "n", "/", "j", "s", "o", "n">> -> "json"
           [] Before(header[1], ";") = <<"m", "u", "l", "t", "i", "p", "a", "r", "t", "/", "f", "o", "r", "m", "-", "d", "a", "t", "a">> -> "multipart"
           [] OTHER -> "406"
    ELSE "400"

\* line 81-92: the handler for a Content-Type header, or the error status
route(header) ==
    IF is_some(header)
    THEN CASE Before(to_lowercase(header[1]), ";") = <<"a", "p", "p", "l", "i", "c", "a", "t", "i", "o", "n", "/", "j", "s", "o", "n">> -> "json"
           [] Before(to_lowercase(header[1]), ";") = <<"m", "u", "l", "t", "i", "p", "a", "r", "t", "/", "f", "o", "r", "m", "-", "d", "a", "t", "a">> -> "multipart"
           [] OTHER -> "406"
    ELSE "400"

\* the Content-Type headers of the requests: the two accepted types plain,
\* with parameters and in upper case, other types, and no header
Headers ==
    { None,
      Some(<<"a", "p", "p", "l", "i", "c", "a", "t", "i", "o", "n", "/", "j", "s", "o", "n">>),
      Some(<<"A", "p", "p", "l", "i", "c", "a", "t", "i", "o", "n", "/", "J", "S", "O", "N", ";", " ", "c", "h", "a", "r", "s", "e", "t", "=", "u", "t", "f", "-", "8">>),
      Some(<<"m", "u", "l", "t", "i", "p", "a", "r", "t", "/", "f", "o", "r", "m", "-", "d", "a", "t", "a", ";", " ", "b", "o", "u", "n", "d", "a", "r", "y", "=", "x">>),
      Some(<<"M", "U", "L", "T", "I", "P", "A", "R", "T", "/", "F", "O", "R", "M", "-", "D", "A", "T", "A">>),
      Some(<<"t", "e", "x", "t", "/", "p", "l", "a", "i", "n">>),
      Some(<<"a", "p", "p", "l", "i", "c", "a", "t", "i", "o", "n", "/", "j", "s", "o", "n", " ", ";", "q">>),
      Some(<<"a", "p", "p", "l", "i", "c", "a", "t", "i", "o", "n", "/", "j", "s", "o", "n", "p">>),
      Some(<<>>) }

\* the request: its header in `call`, its body as the handler would see it;
\* kind is the format the body is in
RouteCall(header) ==
    [fn |-> "route_images_post_by_content_type", header |-> header, ret |-> <<>>]

Bodies ==
    { Handler("json", TRUE, <<SameName[1]>>), Handler("json", TRUE, <<>>),
      Handler("json", FALSE, <<>>), Handler("multipart", TRUE, OneField) }

\* line 80-93: an accepted type calls its handler on the request, whose body
\* parses only when it is in that handler's format; any other returns at once
route_images_post_by_content_type(h) ==
    /\ hd[h].pc = "route"
    /\ call' = [call EXCEPT !.ret = <<route(call.header)>>]
    /\ hd' = [hd EXCEPT ![h] =
                 IF route(call.header) \in {"json", "multipart"}
                 THEN Handler(route(call.header),
                              hd[h].parseable /\ hd[h].kind = route(call.header),
                              hd[h].items)
                 ELSE [@ EXCEPT !.pc = "responded",
                                !.status = IF route(call.header) = "406" THEN 406 ELSE 400]]
    /\ UNCHANGED <<files, dirs, faulty, locks, wr, tasks, clock>>

InitR ==
    /\ files = NoFiles
    /\ dirs = {}
    /\ faulty = TRUE
    /\ locks = {}
    /\ hd \in [{"h1"} -> {[b EXCEPT !.pc = "route"] : b \in Bodies}]
    /\ wr = [h \in {"h1"} |-> NoCall]
    /\ tasks = <<>>
    /\ clock = 0
    /\ call \in {RouteCall(header) : header \in Headers}

RouteStep == \E h \in DOMAIN hd : route_images_post_by_content_type(h)

NextR == RouteStep \/ JsonStep \/ MultipartStep \/ WriterStep

SpecR == InitR /\ [][NextR]_vars

\* the media type of a header: lower-cased, up to the first ';'
MediaType(header) == Before(to_lowercase(header[1]), ";")

\* nothing was created under the upload root and no write or thumbnail call
\* was made
NothingWritten(h) ==
    /\ files = NoFiles /\ dirs = {}
    /\ wr[h] = NoCall /\ tasks = <<>>

\* C29: a POST is routed by the media type of its Content-Type header,
\* lower-cased and without parameters: application/json to the JSON handler,
\* multipart/form-data to the multipart handler; any other type is answered
\* 406 and a missing header 400, and in both cases nothing is written
C29_RoutingByContentType ==
    \A h \in DOMAIN hd :
        hd[h].pc # "route"
        => IF call.header = None
           THEN hd[h].pc = "responded" /\ hd[h].status = 400 /\ NothingWritten(h)
           ELSE IF MediaType(call.header) = <<"a", "p", "p", "l", "i", "c", "a", "t", "i", "o", "n", "/", "j", "s", "o", "n">>
           THEN call.ret = <<"json">> /\ hd[h].kind = "json"
           ELSE IF MediaType(call.header) = <<"m", "u", "l", "t", "i", "p", "a", "r", "t", "/", "f", "o", "r", "m", "-", "d", "a", "t", "a">>
           THEN call.ret = <<"multipart">> /\ hd[h].kind = "multipart"
           ELSE hd[h].pc = "responded" /\ hd[h].status = 406 /\ NothingWritten(h)

\* an upper-case JSON header with a parameter reached the JSON handler, which
\* wrote the item and responded
C29_Witness ==
    \E h \in DOMAIN hd :
        /\ call.header = Some(<<"A", "p", "p", "l", "i", "c", "a", "t", "i", "o", "n", "/", "J", "S", "O", "N", ";", " ", "c", "h", "a", "r", "s", "e", "t", "=", "u", "t", "f", "-", "8">>)
        /\ hd[h].kind = "json" /\ Responded(h)
        /\ Len(hd[h].results) = 1 /\ hd[h].results[1].success

(***************************************************************************)
(* Failure of the exclusive lock (SpecFS)                                  *)
(***************************************************************************)
\* C30: a write_image_data call whose exclusive lock failed returns that
\* error, has consumed no chunk of its source and has written none, and a
\* target that existed before the call still has its content (no other
\* writer having started)
C30_LockFailureTouchesNothing ==
    \A t \in DOMAIN wr :
        wr[t].res = Err("lock")
        => /\ wr[t].pc \in {"drop", "returned"}
           /\ wr[t].consumed = 0 /\ wr[t].pos = 0
           /\ ~wr[t].locked /\ HeldBy(WHandle(t)) = {}
           /\ (Alone(t) /\ ~wr[t].created) => files[wr[t].target] = PriorContent

\* a call on an existing file returned the lock error and the file is as it was
C30_Witness ==
    \E t \in DOMAIN wr :
        /\ wr[t].pc = "returned" /\ wr[t].res = Err("lock")
        /\ wr[t].source # <<>>
        /\ Alone(t) /\ ~wr[t].created
        /\ files[wr[t].target] = PriorContent

(***************************************************************************)
(* Overwriting, the returned value and failure of the copy (SpecFS)        *)
(***************************************************************************)
\* the call of t holds the exclusive lock on its target
HoldsExclusive(t) ==
    [path |-> wr[t].target, holder |-> WHandle(t), mode |-> "exclusive"] \in locks

\* C31: when the copy of a write_image_data call has succeeded on a path
\* that held content before, the file is exactly the source of the call, with
\* no tail of the former content, as long as no other writer follows; and the
\* file is truncated and written only while the call holds the exclusive lock
C31_OverwriteLeavesSource ==
    \A t \in DOMAIN wr :
        /\ (wr[t].pc = "unlock" /\ wr[t].res.ok) => files[wr[t].target] = wr[t].source
        /\ (wr[t].pc = "returned" /\ wr[t].res.ok /\ Alone(t))
           => files[wr[t].target] = wr[t].source
        /\ wr[t].pc \in {"set_len", "copy"} => HoldsExclusive(t)

\* a call returned Ok on a path that held the longer prior content, and the
\* file is its shorter source
C31_Witness ==
    \E t \in DOMAIN wr :
        /\ wr[t].pc = "returned" /\ wr[t].res.ok /\ Alone(t)
        /\ ~wr[t].created
        /\ Len(wr[t].source) = 1 /\ Len(wr[t].source) < Len(PriorContent)
        /\ files[wr[t].target] = wr[t].source

\* C32: once the lock was acquired and the truncation succeeded, the value
\* write_image_data returns is the result of the copy, the count of the bytes
\* copied or the copy's error; the unlock step and the return leave it as the
\* copy set it, whether the unlock fails or not
C32_CopyResultIsReturned ==
    /\ [](\A t \in DOMAIN wr :
             (wr[t].pc \in {"drop", "returned"} /\ wr[t].unlocked)
             => \/ wr[t].res = Ok(Len(wr[t].source)) /\ wr[t].consumed = Len(wr[t].source)
                \/ wr[t].res = Err("copy"))
    /\ [][\A t \in DOMAIN wr :
             wr[t].pc \in {"unlock", "drop"} => wr'[t].res = wr[t].res]_vars

\* the unlock of a call failed after a successful copy of two chunks: the
\* call still holds its lock before the handle is dropped, and its result is Ok
C32_Witness ==
    \E t \in DOMAIN wr :
        /\ wr[t].pc = "drop" /\ wr[t].unlocked /\ HoldsExclusive(t)
        /\ wr[t].res = Ok(2)

(***************************************************************************)
(* Sequential processing of the items of a request                         *)
(***************************************************************************)
\* C33: the items of a request are processed one after another: the handler
\* is at the head of its loop only when no write of it is running, it holds
\* no lock there, and the outcomes of all the items extracted so far are
\* recorded; during a write exactly one item is without its outcome; the
\* request never holds more than one lock
C33_ItemsOneAfterAnother ==
    \A h \in DOMAIN hd :
        /\ hd[h].pc \in {"loop", "responded"}
           => /\ wr[h].pc \in {"idle", "returned"}
              /\ HeldBy(WHandle(h)) = {}
              /\ Len(hd[h].env) = Len(hd[h].results)
              /\ hd[h].pc = "loop" => hd[h].idx = Len(hd[h].results) + 1
        /\ hd[h].pc = "write"
           => /\ Len(hd[h].env) = Len(hd[h].results) + 1
              /\ hd[h].idx = Len(hd[h].env)
              /\ wr[h].target = hd[h].env[hd[h].idx].target[1]
        /\ Cardinality(HeldBy(WHandle(h))) <= 1

\* the second item is being copied under its lock while the thumbnail task of
\* the first item is past its decode
C33_Witness ==
    \E h \in DOMAIN hd :
        /\ hd[h].pc = "write" /\ hd[h].idx = 2
        /\ wr[h].pc = "copy" /\ HoldsExclusive(h)
        /\ \E k \in DOMAIN tasks :
               tasks[k].by = <<h, 1>> /\ tasks[k].pc \in {"create_dir_all", "save"}

(***************************************************************************)
(* microservice::init and microservice::run: the stop channel, the polling *)
(* loop, and the requests a poll hands to their handlers                   *)
(***************************************************************************)
\* most messages sent on the stop channel in one run
MaxSent == 2

\* what the holder of srv_tx may send: the channel carries any &'static str
Messages == {"stop", "ping"}

\* line 12-20, 41-47: the frame of run after init: srv_rx is the queue of the
\* channel, sent the messages sent so far, ctrlc whether set_handler installed
\* the closure (its result is dropped), ret the message that ended the loop
RunCall(ctrlc) ==
    [fn |-> "run", pc |-> "recv_timeout", srv_rx |-> <<>>, sent |-> <<>>,
     ctrlc |-> ctrlc, ret |-> None]

\* a receive that hands out a message nobody sent
recv_timeout_without_message(q) == [res |-> Ok("stop"), rx |-> <<>>]

\* line 50: the oldest message of the queue, or a timeout when it is empty
recv_timeout(q) ==
    IF q # <<>> THEN [res |-> Ok(Head(q)), rx |-> Tail(q)]
    ELSE [res |-> Err("Timeout"), rx |-> q]

\* line 50-52: Ok(_) breaks out of the loop and run returns, anything else polls
RunRecv ==
    /\ call.pc = "recv_timeout"
    /\ call' = IF recv_timeout(call.srv_rx).res.ok
               THEN [call EXCEPT !.pc = "returned",
                                 !.srv_rx = recv_timeout(call.srv_rx).rx,
                                 !.ret = Some(recv_timeout(call.srv_rx).res.n)]
               ELSE [call EXCEPT !.pc = "poll"]
    /\ UNCHANGED <<files, dirs, faulty, locks, wr, tasks, hd, clock>>

\* line 52, 26-28: poll hands every accepted request to its handler and
\* returns to the head of the loop
RunPoll ==
    /\ call.pc = "poll"
    /\ call' = [call EXCEPT !.pc = "recv_timeout"]
    /\ hd' = [h \in DOMAIN hd |->
                 IF hd[h].pc = "accepted"
                 THEN Handler(hd[h].kind, hd[h].parseable, hd[h].items)
                 ELSE hd[h]]
    /\ UNCHANGED <<files, dirs, faulty, locks, wr, tasks, clock>>

\* a client's request reaches the listening socket
Connect ==
    /\ \E h \in DOMAIN hd :
           /\ hd[h].pc = "connecting"
           /\ hd' = [hd EXCEPT ![h].pc = "accepted"]
    /\ UNCHANGED <<files, dirs, faulty, call, locks, wr, tasks, clock>>

\* the holder of srv_tx sends a message while run holds the receiver
Send ==
    /\ call.pc # "returned" /\ Len(call.sent) < MaxSent
    /\ \E m \in Messages :
           call' = [call EXCEPT !.srv_rx = Append(@, m), !.sent = Append(@, m)]
    /\ UNCHANGED <<files, dirs, faulty, locks, wr, tasks, hd, clock>>

\* line 15-19: the installed closure sends "stop" on Ctrl-C; once run has
\* returned the receiver is gone, the send fails and expect panics
CtrlC ==
    /\ call.ctrlc = "set" /\ Len(call.sent) < MaxSent
    /\ call' = IF call.pc # "returned"
               THEN [call EXCEPT !.srv_rx = Append(@, "stop"),
                                 !.sent = Append(@, "stop")]
               ELSE [call EXCEPT !.ctrlc = "panicked"]
    /\ UNCHANGED <<files, dirs, faulty, locks, wr, tasks, hd, clock>>

\* the requests of a run
RequestsM ==
    { Handler("json", TRUE, <<SameName[1]>>), Handler("json", FALSE, <<>>),
      Handler("multipart", TRUE, OneField) }

InitM ==
    /\ files = NoFiles
    /\ dirs = {}
    /\ faulty = FALSE
    /\ locks = {}
    /\ hd \in [{"h1"} -> {[b EXCEPT !.pc = "connecting"] : b \in RequestsM}]
    /\ wr = [h \in {"h1"} |-> NoCall]
    /\ tasks = <<>>
    /\ clock = 0
    /\ call \in {RunCall(c) : c \in {"set", "unset"}}

NextM ==
    \/ RunRecv \/ RunPoll \/ Connect \/ Send \/ CtrlC
    \/ JsonStep \/ MultipartStep \/ WriterStep

\* the thread of run keeps running
SpecM == InitM /\ [][NextM]_vars /\ WF_vars(RunRecv) /\ WF_vars(RunPoll)

\* C34: run returns only on a message of the stop channel, the oldest one
\* sent, so never before a message was sent; on an empty channel it goes on
\* to poll and from the poll back to the receive; and once "stop" was sent
\* run eventually returns
C34_RunUntilMessage ==
    /\ [](call.pc = "returned"
            => call.sent # <<>> /\ call.ret = Some(Head(call.sent)))
    /\ [][/\ (call.pc = "recv_timeout" /\ call.srv_rx = <<>>)
             => call'.pc \in {"recv_timeout", "poll"}
          /\ call.pc = "poll" => call'.pc \in {"poll", "recv_timeout"}]_vars
    /\ (call.pc = "recv_timeout") ~> (call.pc \in {"poll", "returned"})
    /\ (\E i \in DOMAIN call.sent : call.sent[i] = "stop") ~> (call.pc = "returned")

\* run served a request by polling and returned on the "stop" that was sent
C34_Witness ==
    /\ call.pc = "returned" /\ call.sent = <<"stop">> /\ call.ret = Some("stop")
    /\ Responded("h1")

(***************************************************************************)
(* Concurrent calls on the same and on different paths: two writers and a  *)
(* thumbnail task, every thread scheduled fairly                           *)
(***************************************************************************)
\* a second path under the upload root
OtherPath == <<"u", ".", "p", "n", "g">>

\* the first writer works on TestPath, the second writer and the task on
\* either path; the paths hold an image or do not exist yet
InitD ==
    /\ files \in {NoFiles, [q \in {TestPath, OtherPath} |-> PriorContent]}
    /\ dirs = {}
    /\ faulty \in BOOLEAN
    /\ locks = {}
    /\ wr \in {f \in [Writers -> {WriteCall(s, p) : s \in {<<ChunkA, ChunkB>>, PayloadB},
                                                  p \in {TestPath, OtherPath}}] :
                    /\ f["w1"].target = TestPath /\ f["w1"].source = <<ChunkA, ChunkB>>
                    /\ f["w2"].source = PayloadB}
    /\ tasks \in {<<MakeCall(p, <<>>)>> : p \in {TestPath, OtherPath}}
    /\ hd = <<>>
    /\ clock = 0
    /\ call = NoDirectCall

\* the thread of the direct write call t
WriteThread(t) == t \in DOMAIN wr /\ write_image_data(t)

\* every thread keeps running; a blocking flock is granted once the lock is
\* free and stays free
SpecD ==
    /\ InitD /\ [][NextFS]_vars
    /\ \A t \in Writers : WF_vars(WriteThread(t))
    /\ WF_vars(MakeTask(1))

\* the handles of the running calls
Handles == {WHandle(t) : t \in DOMAIN wr} \cup {THandle(k) : k \in DOMAIN tasks}

\* C35: every write_image_data call and every thumbnail::make call holds at
\* most one lock, which is on the path it was called with, and takes a lock
\* only while it holds none; and every one of the calls eventually returns
C35_NoDeadlock ==
    /\ [](\A h \in Handles : Cardinality(HeldBy(h)) <= 1)
    /\ [](\A l \in locks :
            \/ \E t \in DOMAIN wr : l.holder = WHandle(t) /\ l.path = wr[t].target
            \/ \E k \in DOMAIN tasks : l.holder = THandle(k) /\ l.path = tasks[k].path)
    /\ [][\A l \in locks' \ locks : HeldBy(l.holder) = {}]_vars
    /\ <>(\A t \in DOMAIN wr : wr[t].pc = "returned")
    /\ <>(\A k \in DOMAIN tasks : tasks[k].pc = "done")

\* with no system call failing, both writers wait for the exclusive lock of
\* the path while the task holds its shared lock
C35_Witness ==
    /\ \A t \in DOMAIN wr : wr[t].pc = "lock_exclusive" /\ wr[t].target = TestPath
    /\ [path |-> TestPath, holder |-> THandle(1), mode |-> "shared"] \in locks
    /\ ~faulty

(***************************************************************************)
(* Items that carry both a url and data                                    *)
(***************************************************************************)
\* C36: for a JSON item that carries both data and url the outcome is the one
\* of the base64 extractor and no GET is sent to the url; when the data does
\* not decode the item fails with the decoder's reason, nothing is written
\* for it and the upload root is as it was before the item
C36_DataBeforeUrl ==
    \A h \in DOMAIN hd :
        hd[h].kind = "json"
        => \A i \in 1..Len(hd[h].results) :
               LET item == hd[h].items[i]
                   e == hd[h].env[i]
                   o == hd[h].results[i]
               IN  (is_some(item.data) /\ is_some(item.url))
                   => /\ e.get = None /\ ~e.resp.sent
                      /\ o = JsonOutcome(Base64Extraction[item, e.now], e.wres)
                      /\ ~Base64Extraction[item, e.now].ok
                         => /\ ~o.success /\ o.size = 0
                            /\ o.reason = Base64Extraction[item, e.now].err
                            /\ e.target = None /\ e.wres = Pending
                            /\ e.after = e.before

\* the request was answered: its first item, whose data does not decode,
\* failed, and its second item was written from its data
C36_Witness ==
    \E h \in DOMAIN hd :
        /\ hd[h].items = UrlAndData /\ Responded(h)
        /\ ~hd[h].results[1].success /\ hd[h].env[1].target = None
        /\ hd[h].results[2].success /\ hd[h].results[2].size = 1
        /\ hd[h].env[2].get = None

(***************************************************************************)
(* Two items of one request under one name                                 *)
(***************************************************************************)
\* s is the first bytes of t
StartsOf(s, t) == Len(s) <= Len(t) /\ s = SubSeq(t, 1, Len(s))

\* items i and j of request h, in this order, were written to one path and
\* both writes returned Ok
WrittenTwice(h, i, j) ==
    /\ i < j /\ j <= Len(hd[h].results)
    /\ is_some(hd[h].env[i].target) /\ hd[h].env[i].target = hd[h].env[j].target
    /\ hd[h].env[i].wres.ok /\ hd[h].env[j].wres.ok

\* C37: when two items of a request were written under one name and both
\* writes returned Ok, each outcome reports success with the size of its own
\* payload; once the request is answered the file holds the payload of the
\* later item (no item after it has the name); and what the thumbnail task of
\* the earlier item has read is the start of one of the two payloads, the
\* whole of one of them when it read to the end of the file
C37_SameNameTwice ==
    \A h \in DOMAIN hd : \A i, j \in 1..Len(hd[h].results) :
        WrittenTwice(h, i, j)
        => /\ hd[h].results[i].success /\ hd[h].results[j].success
           /\ hd[h].results[i].size = Len(extracted(h, i).data)
           /\ hd[h].results[j].size = Len(extracted(h, j).data)
           /\ ( /\ hd[h].pc = "responded"
                /\ \A n \in (j + 1)..Len(hd[h].env) :
                       hd[h].env[n].target # hd[h].env[j].target )
              => files[TargetOf(h, j)] = extracted(h, j).data
           /\ \A k \in DOMAIN tasks :
                  tasks[k].by = <<h, i>>
                  => /\ \/ StartsOf(tasks[k].buf, extracted(h, i).data)
                        \/ StartsOf(tasks[k].buf, extracted(h, j).data)
                     /\ tasks[k].eof
                        => tasks[k].buf \in {extracted(h, i).data, extracted(h, j).data}

\* the request is answered with both items written, and the thumbnail task
\* of the first item is still reading: it has the first chunk of the second
\* payload
C37_Witness ==
    \E h \in DOMAIN hd :
        /\ hd[h].items = SameNameLong /\ Responded(h)
        /\ WrittenTwice(h, 1, 2)
        /\ hd[h].results[1].size = 2 /\ hd[h].results[2].size = 2
        /\ files[TargetOf(h, 2)] = <<ChunkB, ChunkB>>
        /\ \E k \in DOMAIN tasks :
               /\ tasks[k].by = <<h, 1>> /\ tasks[k].pc = "decode"
               /\ tasks[k].buf = <<ChunkB>>

(***************************************************************************)
(* A write whose copy fails                                                *)
(***************************************************************************)
\* the bytes of its source that call t has copied
Copied(t) == SubSeq(wr[t].source, 1, wr[t].consumed)

\* C38: when the copy of a write_image_data call fails, the call still holds
\* its lock at the failure and the file holds the bytes copied so far, fewer
\* than the source and not what the path held before; the call then returns
\* that error holding no lock, and the file is left as it was at the failure
\* when no other writer touched the path
C38_FailedCopyLeavesPrefix ==
    \A t \in DOMAIN wr :
        wr[t].res = Err("copy")
        => /\ wr[t].consumed < Len(wr[t].source)
           /\ wr[t].pc \in {"unlock", "drop", "returned"}
           /\ wr[t].pc = "unlock"
              => /\ HoldsExclusive(t)
                 /\ files[wr[t].target] = Copied(t)
                 /\ files[wr[t].target] # PriorContent
           /\ wr[t].pc = "returned" => HeldBy(WHandle(t)) = {}
           /\ (wr[t].pc = "returned" /\ Alone(t))
              => files[wr[t].target] = Copied(t)

\* a call on a path that held an image returned the error of its copy after
\* one chunk of two; it holds no lock and the file is that one chunk
C38_Witness ==
    \E t \in DOMAIN wr :
        /\ wr[t].pc = "returned" /\ wr[t].res = Err("copy") /\ Alone(t)
        /\ ~wr[t].created /\ Len(wr[t].source) = 2 /\ wr[t].consumed = 1
        /\ files[wr[t].target] = <<wr[t].source[1]>>
        /\ HeldBy(WHandle(t)) = {}

====
